---- MODULE Spec2Model ----
(***************************************************************************)
(* Trap dispatch and interrupt coordination of the substrix kernel:        *)
(* the cause decoder and rust_trap_handler (trap.rs), the software         *)
(* interrupt controller (interrupt.rs, msip_debug.rs), the CLINT timer     *)
(* (arch/riscv64/timer.rs) and the interrupt-enable helpers                *)
(* (arch/riscv64/csr.rs), on one hart.                                     *)
(*                                                                         *)
(* Machine words are XLEN bits wide; the model scales the 64-bit registers *)
(* of the target down to XLEN bits and keeps every shift and mask of the   *)
(* source relative to that width (bit 63 of the source is bit XLEN-1).     *)
(* The foreground runs one source statement group per step; a deliverable  *)
(* interrupt is taken before the next foreground step, and the trap        *)
(* handler runs to completion (the hardware clears mstatus.MIE on entry    *)
(* and mret restores it).                                                  *)
(***************************************************************************)
EXTENDS Integers, Sequences, FiniteSets, TLC

\* ------------------------------------------------------------------ bounds
XLEN == 13              \* scaled register width (the target has 64)
MaxPc == 1              \* trap PCs are 2*i bytes into the kernel text, i <= MaxPc
MaxValue == 2           \* largest value a caller asks to write to MSIP
MaxTime == 1            \* MTIME runs from 0 to MaxTime
MaxAlarm == 1           \* deadlines passed to set_alarm by the foreground
MaxErrors == 2          \* cap on MSIP_ERRORS
MaxYields == 1          \* cap on YIELD_COUNT
MaxTimerIrqs == 2       \* cap on TIMER_STATS.interrupts
MaxAlarmsSet == 1       \* cap on foreground set_alarm calls counted in TIMER_STATS
TIMER_BITS == 28        \* scaled width of the CLINT timer registers and tick counts (64)
MaxMs == 26850          \* millisecond values given to the tick conversions
MaxSeverity == 10       \* severities given to decide_recovery_action
MaxDelayMs == 1         \* millisecond values given to delay_ms
MaxElapsedMs == 2       \* MTIME runs for MaxElapsedMs milliseconds in the wait harness
MaxPanics == 2          \* cap on nested entries of the panic handler
PanicFrame == 64        \* bytes of stack a nested panic entry takes
WORD_BITS == 2          \* scaled width of a memory word (32)
MaxDirty == 1           \* RAM words holding a value other than 0 at a time

\* --------------------------------------------------------------- constants
TIMER_FREQ == 10000000
max_wait == 10000
max_wait_relaxed == 5000
CheckInterval == 1000
VerifyAttempts == 3
MSTATUS_MIE_BIT == 3
MIE_MSIE_BIT == 3
MIE_MTIE_BIT == 7
MIE_MEIE_BIT == 11
INTERRUPT_SW_MACHINE == 3
INTERRUPT_TIMER_MACHINE == 7
INTERRUPT_EXT_MACHINE == 11
EXCEPTION_ECALL_MMODE == 11
EXCEPTION_ILLEGAL_INSTR == 2
InstrWidth == 4
MSTATUS_MPIE_BIT == 7
MSTATUS_MPP_SHIFT == 11
MSTATUS_MPP_MACHINE == 3
EXCEPTION_INSTR_ACCESS_FAULT == 1
max_commands == 10
StackDumpWords == 8
max_depth == 5
DumpLimit == 64
demo_commands == << "status", "memory", "reset" >>

\* ------------------------------------------------------------ machine words
Pow2(n) == 2 ^ n
Word == 0 .. (Pow2(XLEN) - 1)
MCAUSE_INTERRUPT_BIT == Pow2(XLEN - 1)
Bit(x, n) == (x \div Pow2(n)) % 2
SetBit(x, n) == IF Bit(x, n) = 1 THEN x ELSE x + Pow2(n)
ClearBit(x, n) == IF Bit(x, n) = 1 THEN x - Pow2(n) ELSE x
PcValues == { 2 * i : i \in 0 .. MaxPc }

\* ------------------------------------------------------------------- state
VARIABLES
    hwFault,            \* TRUE: device-register reads may return a wrong value
    msip,               \* CLINT MSIP of hart 0 (0x2000000)
    mtime,              \* CLINT MTIME
    mtimecmp,           \* CLINT MTIMECMP of hart 0
    mstatus, mie,       \* CSRs
    mcause, mepc,       \* CSRs written by the hardware on trap entry
    SW_INTERRUPT_COUNT, YIELD_COUNT, LAST_YIELD_TIME,
    MSIP_ERRORS, HANDLER_CALLS,
    TIMER_STATS,        \* [interrupts, alarms_set, errors, total_ticks]
    TICKS,              \* tick counter of the legacy timer module (timer.rs)
    PANIC_COUNT, LAST_PANIC_PC,
    stack,              \* the frames between SP and the stack base: "live" or "zeroed"
    mem,                \* the RAM words a MemoryGuard is placed over
    guard,              \* the MemoryGuard: range, checksum, and the contents it was taken of
    fg,                 \* the foreground: position and locals of the running call
    ev                  \* the step just taken: what ran, with what it saw on entry

vars == << hwFault, msip, mtime, mtimecmp, mstatus, mie, mcause, mepc,
           SW_INTERRUPT_COUNT, YIELD_COUNT, LAST_YIELD_TIME,
           MSIP_ERRORS, HANDLER_CALLS, TIMER_STATS,
           TICKS, PANIC_COUNT, LAST_PANIC_PC, stack, mem, guard, fg, ev >>

swStats == << SW_INTERRUPT_COUNT, YIELD_COUNT, LAST_YIELD_TIME,
              MSIP_ERRORS, HANDLER_CALLS >>

\* State of timer.rs, panic.rs and the stack, which the interrupt
\* coordination code never writes.
coldState == << TICKS, PANIC_COUNT, LAST_PANIC_PC, stack, mem, guard >>

NoEv == [op |-> "none"]

\* Addresses of the modelled RAM words, as byte offsets from 0x80000000: the
\* first two words of RAM.
MemAddrs == {0, 4}
MemWords == 0 .. (Pow2(WORD_BITS) - 1)
ZeroMem == [a \in MemAddrs |-> 0]
NoGuard == [active |-> FALSE, start |-> 0, end |-> 0, checksum |-> 0,
            baseline |-> ZeroMem]

\* A volatile read of a device register holding `stored`: the stored value,
\* or on faulty hardware any value of `domain`.
VolatileRead(stored, domain) == IF hwFault THEN domain \cup {stored} ELSE {stored}

MsipReadDomain == 0 .. 2
CmpReadDomain == 0 .. MaxAlarm

\* ------------------------------------------------------------- trap decode
\* TrapCause::from_mcause
from_mcause_swapped(mcause_v) ==
    LET interrupt == (mcause_v \div Pow2(XLEN - 1)) # 0
        exception_code == mcause_v % Pow2(XLEN - 1)
    IN  IF interrupt
        THEN CASE exception_code = 7 -> [tag |-> "SoftwareInterrupt"]
               [] exception_code = 3 -> [tag |-> "TimerInterrupt"]
               [] OTHER -> [tag |-> "Other", val |-> mcause_v]
        ELSE CASE exception_code = 11 -> [tag |-> "Ecall"]
               [] OTHER -> [tag |-> "Other", val |-> mcause_v]

from_mcause(mcause_v) ==
    LET interrupt == (mcause_v \div Pow2(XLEN - 1)) # 0
        exception_code == mcause_v % Pow2(XLEN - 1)
    IN  IF interrupt
        THEN CASE exception_code = 3 -> [tag |-> "SoftwareInterrupt"]
               [] exception_code = 7 -> [tag |-> "TimerInterrupt"]
               [] OTHER -> [tag |-> "Other", val |-> mcause_v]
        ELSE CASE exception_code = 11 -> [tag |-> "Ecall"]
               [] OTHER -> [tag |-> "Other", val |-> mcause_v]

\* ------------------------------------------------------------------- timer
\* ClintTimer::set_alarm as run inside the timer handler: the new TIMER_STATS
\* for a readback of the compare register.
StatsAfterHandlerAlarm(stats, when, readback) ==
    IF readback = when
    THEN [stats EXCEPT !.interrupts = @ + 1, !.alarms_set = @ + 1]
    ELSE [stats EXCEPT !.interrupts = @ + 1, !.errors = @ + 2]

\* timer::get_ticks of the legacy timer module, the tick counter main.rs
\* reports.
get_ticks == TICKS

\* arch::riscv64::timer::handle_timer_interrupt
handle_timer_interrupt_norearm ==
    LET current_time == mtime
        next_interrupt == current_time + (TIMER_FREQ * 10)
    IN  \E readback \in VolatileRead(next_interrupt, CmpReadDomain) :
            /\ mtimecmp' = mtimecmp
            /\ TIMER_STATS' = StatsAfterHandlerAlarm(TIMER_STATS, next_interrupt, readback)

handle_timer_interrupt_oneshot ==
    LET current_time == mtime
        next_interrupt == current_time + (TIMER_FREQ * 10)
    IN  \E readback \in VolatileRead(next_interrupt, CmpReadDomain) :
            /\ mtimecmp' = Pow2(TIMER_BITS) - 1
            /\ TIMER_STATS' = StatsAfterHandlerAlarm(TIMER_STATS, next_interrupt, readback)

handle_timer_interrupt ==
    LET current_time == mtime
        next_interrupt == current_time + (TIMER_FREQ * 10)
    IN  \E readback \in VolatileRead(next_interrupt, CmpReadDomain) :
            /\ mtimecmp' = next_interrupt
            /\ TIMER_STATS' = StatsAfterHandlerAlarm(TIMER_STATS, next_interrupt, readback)

\* ------------------------------------------------------------ trap handler
\* MSIP after the SoftwareInterrupt arm: write_volatile(msip_addr, 0)
MsipAfterSoftwareInterrupt_kept(msip_v) == msip_v

MsipAfterSoftwareInterrupt(msip_v) == 0

\* mepc after the Ecall arm: write_mepc(mepc + 4)
EcallResumePc_same(mepc_v) == mepc_v

EcallResumePc(mepc_v) == (mepc_v + InstrWidth) % Pow2(XLEN)

\* rust_trap_handler, entered with the cause and exception PC the hardware
\* latched (the reads of lines 63-64).
rust_trap_handler_skips_faults(mcause_v, mepc_v) ==
    LET trap_cause == from_mcause(mcause_v)
        interrupt == (mcause_v \div Pow2(XLEN - 1)) # 0
        exception_code == mcause_v % Pow2(XLEN - 1)
    IN  CASE trap_cause.tag = "SoftwareInterrupt" ->
                /\ msip' = MsipAfterSoftwareInterrupt(msip)
                /\ mepc' = mepc_v
                /\ UNCHANGED << mtimecmp, TIMER_STATS >>
          [] trap_cause.tag = "TimerInterrupt" ->
                /\ handle_timer_interrupt
                /\ mepc' = mepc_v
                /\ UNCHANGED msip
          [] trap_cause.tag = "Ecall" ->
                /\ mepc' = EcallResumePc(mepc_v)
                /\ UNCHANGED << msip, mtimecmp, TIMER_STATS >>
          [] OTHER ->
                /\ msip' = IF interrupt /\ exception_code = 3 THEN 0 ELSE msip
                /\ mepc' = IF interrupt THEN mepc_v ELSE EcallResumePc(mepc_v)
                /\ UNCHANGED << mtimecmp, TIMER_STATS >>

rust_trap_handler(mcause_v, mepc_v) ==
    LET trap_cause == from_mcause(mcause_v)
        interrupt == (mcause_v \div Pow2(XLEN - 1)) # 0
        exception_code == mcause_v % Pow2(XLEN - 1)
    IN  CASE trap_cause.tag = "SoftwareInterrupt" ->
                /\ msip' = MsipAfterSoftwareInterrupt(msip)
                /\ mepc' = mepc_v
                /\ UNCHANGED << mtimecmp, TIMER_STATS >>
          [] trap_cause.tag = "TimerInterrupt" ->
                /\ handle_timer_interrupt
                /\ mepc' = mepc_v
                /\ UNCHANGED msip
          [] trap_cause.tag = "Ecall" ->
                /\ mepc' = EcallResumePc(mepc_v)
                /\ UNCHANGED << msip, mtimecmp, TIMER_STATS >>
          [] OTHER ->
                /\ msip' = IF interrupt /\ exception_code = 3 THEN 0 ELSE msip
                /\ mepc' = mepc_v
                /\ UNCHANGED << mtimecmp, TIMER_STATS >>

\* What the step records about a trap: the entry values and the decoded cause.
TrapEv(mcause_v, mepc_v) ==
    [op |-> "trap", mcause |-> mcause_v, mepc0 |-> mepc_v, msip0 |-> msip,
     calls0 |-> HANDLER_CALLS, mie0 |-> Bit(mstatus, MSTATUS_MIE_BIT),
     ticks0 |-> TICKS, stats0 |-> TIMER_STATS,
     trap_cause |-> from_mcause(mcause_v)]

\* Trap entry, handler, mret.  The hardware latches cause and PC; mret
\* restores mstatus.MIE to its value at entry.
TakeTrap_panics_on_unknown(mcause_v, mepc_v) ==
    /\ from_mcause(mcause_v).tag = "TimerInterrupt"
            => TIMER_STATS.interrupts < MaxTimerIrqs
    /\ mcause' = mcause_v
    /\ rust_trap_handler(mcause_v, mepc_v)
    /\ ev' = TrapEv(mcause_v, mepc_v)
    /\ PANIC_COUNT' = IF from_mcause(mcause_v).tag = "Other"
                      THEN PANIC_COUNT + 1 ELSE PANIC_COUNT
    /\ UNCHANGED << hwFault, TICKS, LAST_PANIC_PC, stack, mem, guard, mtime, mstatus, mie, swStats >>

TakeTrap(mcause_v, mepc_v) ==
    /\ from_mcause(mcause_v).tag = "TimerInterrupt"
            => TIMER_STATS.interrupts < MaxTimerIrqs
    /\ mcause' = mcause_v
    /\ rust_trap_handler(mcause_v, mepc_v)
    /\ ev' = TrapEv(mcause_v, mepc_v)
    /\ UNCHANGED << hwFault, coldState, mtime, mstatus, mie, swStats >>

\* ----------------------------------------------------------- initial state
IdleFg ==
    [pc |-> "idle", op |-> "idle", ret |-> "idle", value |-> 0, attempt |-> 0,
     reads |-> << >>, result |-> "none", was_enabled |-> FALSE, wait_count |-> 0,
     initial_count |-> 0, mie0 |-> 0, when |-> 0,
     kind |-> "none", action |-> "none", command_count |-> 0, sp |-> 0,
     ra |-> 0, fp |-> 0, depth |-> 0]

Init ==
    /\ hwFault \in BOOLEAN
    /\ msip \in {0, 1}
    /\ mtime = 0
    /\ mtimecmp = 0
    /\ mstatus = 0
    /\ mie = 0
    /\ mcause = 0
    /\ mepc = 0
    /\ SW_INTERRUPT_COUNT = 0
    /\ YIELD_COUNT = 0
    /\ LAST_YIELD_TIME = 0
    /\ MSIP_ERRORS = 0
    /\ HANDLER_CALLS = 0
    /\ TIMER_STATS = [interrupts |-> 0, alarms_set |-> 0, errors |-> 0, total_ticks |-> 0]
    /\ TICKS = 0
    /\ PANIC_COUNT = 0
    /\ LAST_PANIC_PC = 0
    /\ stack = "live"
    /\ mem = ZeroMem
    /\ guard = NoGuard
    /\ fg = IdleFg
    /\ ev = NoEv


\* ------------------------------------------------------ interrupt delivery
\* csr::interrupts_enabled
interrupts_enabled(mstatus_v) == Bit(mstatus_v, MSTATUS_MIE_BIT) # 0

SwIrqDeliverable ==
    /\ interrupts_enabled(mstatus)
    /\ Bit(mie, MIE_MSIE_BIT) = 1
    /\ msip % 2 = 1

TimerIrqDeliverable ==
    /\ interrupts_enabled(mstatus)
    /\ Bit(mie, MIE_MTIE_BIT) = 1
    /\ mtime >= mtimecmp

IrqDeliverable == SwIrqDeliverable \/ TimerIrqDeliverable

\* The foreground executes its next statements only when no interrupt is
\* deliverable.
FgAt(pc) == fg.pc = pc /\ ~IrqDeliverable

\* Machine software interrupt taken at an instruction boundary.
SoftwareIrq ==
    /\ SwIrqDeliverable
    /\ \E p \in PcValues : TakeTrap(MCAUSE_INTERRUPT_BIT + INTERRUPT_SW_MACHINE, p)
    /\ UNCHANGED fg

\* Machine timer interrupt (lower priority than the software interrupt).
TimerIrq ==
    /\ TimerIrqDeliverable
    /\ ~SwIrqDeliverable
    /\ \E p \in PcValues : TakeTrap(MCAUSE_INTERRUPT_BIT + INTERRUPT_TIMER_MACHINE, p)
    /\ UNCHANGED fg

\* MTIME is free running.
Tick ==
    /\ mtime < MaxTime
    /\ mtime' = mtime + 1
    /\ ev' = NoEv
    /\ UNCHANGED << hwFault, coldState, msip, mtimecmp, mstatus, mie, mcause, mepc,
                    swStats, TIMER_STATS, fg >>

\* ------------------------------------------------------- write_msip_safe
\* interrupt.rs:86 / msip_debug.rs:219
ValueRejected_loose(value) == value > 2

ValueRejected(value) == value > 1

\* One pass of the verification loop of write_msip_safe on readback `val`,
\* `attempt` being the loop index (interrupt.rs:102-124).
VerifyOutcome_short(value, val, attempt) ==
    IF val <= 1
    THEN IF val = value THEN "Ok"
         ELSE IF attempt + 1 < VerifyAttempts - 1 THEN "Retry" ELSE "VerifyFailed"
    ELSE "ReadError"

VerifyOutcome(value, val, attempt) ==
    IF val <= 1
    THEN IF val = value THEN "Ok"
         ELSE IF attempt + 1 < VerifyAttempts THEN "Retry" ELSE "VerifyFailed"
    ELSE "ReadError"

\* MSIP_ERRORS increments of an outcome: read_msip_safe and write_msip_safe
\* each count an invalid readback; exhausted retries count once.
ErrorsAdded(outcome) ==
    CASE outcome = "ReadError" -> 2
      [] outcome = "VerifyFailed" -> 1
      [] OTHER -> 0

\* The frame of write_msip_safe(v) after its write, returning to `retlabel`.
CallWms(f, v, retlabel) ==
    [f EXCEPT !.pc = "wms_verify", !.ret = retlabel, !.value = v,
              !.attempt = 0, !.reads = << >>, !.result = "none"]

\* Return of write_msip_safe with result r to the caller's continuation.
Return(f, r) ==
    IF f.ret = "idle" THEN IdleFg
    ELSE [f EXCEPT !.pc = f.ret, !.ret = "idle", !.result = r, !.value = 0,
                   !.attempt = 0, !.reads = << >>]

\* trigger_software_interrupt (v = 1), clear_software_interrupt (v = 0), or
\* a request with an out-of-domain value: the range check and the write.
write_msip_safe_call ==
    /\ FgAt("idle")
    /\ \E v \in 0 .. MaxValue :
        IF ValueRejected(v)
        THEN /\ ev' = [op |-> "write_msip_safe", value |-> v, result |-> "InvalidValue",
                       reads |-> << >>, msip0 |-> msip, errors0 |-> MSIP_ERRORS]
             /\ UNCHANGED << msip, fg >>
        ELSE /\ msip' = v
             /\ fg' = [CallWms(IdleFg, v, "idle") EXCEPT !.op = "write_msip_safe"]
             /\ ev' = NoEv
    /\ UNCHANGED << hwFault, coldState, mtime, mtimecmp, mstatus, mie, mcause, mepc,
                    swStats, TIMER_STATS >>

\* One readback of the verification loop (read_msip_safe and the comparison).
write_msip_safe_verify ==
    /\ FgAt("wms_verify")
    /\ \E val \in VolatileRead(msip, MsipReadDomain) :
        LET outcome == VerifyOutcome(fg.value, val, fg.attempt)
            reads == Append(fg.reads, val)
            errs == MSIP_ERRORS + ErrorsAdded(outcome)
        IN  /\ errs <= MaxErrors
            /\ MSIP_ERRORS' = errs
            /\ IF outcome = "Retry"
               THEN /\ fg' = [fg EXCEPT !.attempt = @ + 1, !.reads = reads]
                    /\ ev' = NoEv
               ELSE /\ fg' = Return(fg, outcome)
                    /\ ev' = [op |-> "write_msip_safe", value |-> fg.value,
                              result |-> outcome, reads |-> reads, caller |-> fg.op]
    /\ UNCHANGED << hwFault, coldState, msip, mtime, mtimecmp, mstatus, mie, mcause, mepc,
                    SW_INTERRUPT_COUNT, YIELD_COUNT, LAST_YIELD_TIME,
                    HANDLER_CALLS, TIMER_STATS >>

\* msip_debug::safe_msip_write: range check and write ...
safe_msip_write_call ==
    /\ FgAt("idle")
    /\ \E v \in 0 .. MaxValue :
        IF ValueRejected(v)
        THEN /\ ev' = [op |-> "safe_msip_write", value |-> v, result |-> "InvalidValue",
                       msip0 |-> msip, errors0 |-> MSIP_ERRORS]
             /\ UNCHANGED << msip, fg >>
        ELSE /\ msip' = v
             /\ fg' = [IdleFg EXCEPT !.pc = "smw_verify", !.op = "safe_msip_write",
                                     !.value = v]
             /\ ev' = NoEv
    /\ UNCHANGED << hwFault, coldState, mtime, mtimecmp, mstatus, mie, mcause, mepc,
                    swStats, TIMER_STATS >>

\* ... and its single readback.
safe_msip_write_verify ==
    /\ FgAt("smw_verify")
    /\ \E readback \in VolatileRead(msip, MsipReadDomain) :
        ev' = [op |-> "safe_msip_write", value |-> fg.value,
               result |-> IF readback = fg.value THEN "Ok" ELSE "VerifyFailed",
               readback |-> readback]
    /\ fg' = IdleFg
    /\ UNCHANGED << hwFault, coldState, msip, mtime, mtimecmp, mstatus, mie, mcause, mepc,
                    swStats, TIMER_STATS >>

\* ---------------------------------------------------------------- yield_cpu
\* Step 4 of both yield variants: disable_global_interrupts if the call
\* enabled them.
RestoreInterrupts_always(was_enabled, mstatus_v) == ClearBit(mstatus_v, MSTATUS_MIE_BIT)

RestoreInterrupts(was_enabled, mstatus_v) ==
    IF ~was_enabled THEN ClearBit(mstatus_v, MSTATUS_MIE_BIT) ELSE mstatus_v

\* Step 2 of both yield variants: enable_global_interrupts if they were off.
EnableForWait(was_enabled, mstatus_v) ==
    IF ~was_enabled THEN SetBit(mstatus_v, MSTATUS_MIE_BIT) ELSE mstatus_v

YieldEv(name, result, outcome) ==
    [op |-> name, result |-> result, outcome |-> outcome, mie0 |-> fg.mie0,
     trigger |-> fg.result]

\* Statistics update and trigger_software_interrupt's write (lines 139-148).
yield_cpu_call ==
    /\ FgAt("idle")
    /\ YIELD_COUNT < MaxYields
    /\ YIELD_COUNT' = YIELD_COUNT + 1
    /\ LAST_YIELD_TIME' = SW_INTERRUPT_COUNT
    /\ msip' = 1
    /\ fg' = [CallWms(IdleFg, 1, "y_after_trigger") EXCEPT
                 !.op = "yield_cpu", !.mie0 = Bit(mstatus, MSTATUS_MIE_BIT)]
    /\ ev' = NoEv
    /\ UNCHANGED << hwFault, coldState, mtime, mtimecmp, mstatus, mie, mcause, mepc,
                    SW_INTERRUPT_COUNT, MSIP_ERRORS, HANDLER_CALLS, TIMER_STATS >>

\* Result of the trigger; Step 2 (lines 148-167).
yield_cpu_enable ==
    /\ FgAt("y_after_trigger")
    /\ IF fg.result # "Ok"
       THEN /\ fg' = IdleFg
            /\ ev' = YieldEv("yield_cpu", "Err", "set_failed")
            /\ UNCHANGED mstatus
       ELSE LET was_enabled == interrupts_enabled(mstatus)
            IN  /\ mstatus' = EnableForWait(was_enabled, mstatus)
                /\ fg' = [fg EXCEPT !.pc = "y_wait", !.was_enabled = was_enabled,
                                    !.wait_count = 0]
                /\ ev' = NoEv
    /\ UNCHANGED << hwFault, coldState, msip, mtime, mtimecmp, mie, mcause, mepc,
                    swStats, TIMER_STATS >>

\* Step 3: CheckInterval iterations of the wait loop and the poll closing
\* them (lines 169-197).
yield_cpu_wait ==
    /\ FgAt("y_wait")
    /\ fg.wait_count < max_wait
    /\ \E msip_val \in VolatileRead(msip, MsipReadDomain) :
        LET wc == fg.wait_count + CheckInterval
            errs == MSIP_ERRORS + (IF msip_val > 1 THEN 1 ELSE 0)
        IN  /\ errs <= MaxErrors
            /\ MSIP_ERRORS' = errs
            /\ fg' = [fg EXCEPT !.wait_count = wc,
                                !.pc = IF msip_val = 1 /\ wc < max_wait
                                       THEN "y_wait" ELSE "y_restore"]
    /\ ev' = NoEv
    /\ UNCHANGED << hwFault, coldState, msip, mtime, mtimecmp, mstatus, mie, mcause, mepc,
                    SW_INTERRUPT_COUNT, YIELD_COUNT, LAST_YIELD_TIME,
                    HANDLER_CALLS, TIMER_STATS >>

\* Steps 4 and 5 (lines 199-223).
yield_cpu_restore ==
    /\ FgAt("y_restore")
    /\ mstatus' = RestoreInterrupts(fg.was_enabled, mstatus)
    /\ \E final_msip \in VolatileRead(msip, MsipReadDomain) :
        CASE final_msip > 1 ->
                /\ MSIP_ERRORS + 1 <= MaxErrors
                /\ MSIP_ERRORS' = MSIP_ERRORS + 1
                /\ fg' = IdleFg
                /\ ev' = YieldEv("yield_cpu", "Err", "read_error")
                /\ UNCHANGED msip
          [] final_msip = 0 ->
                /\ fg' = IdleFg
                /\ ev' = YieldEv("yield_cpu", "Ok", "cleared")
                /\ UNCHANGED << msip, MSIP_ERRORS >>
          [] OTHER ->
                /\ msip' = 0
                /\ fg' = CallWms(fg, 0, "y_done")
                /\ ev' = NoEv
                /\ UNCHANGED MSIP_ERRORS
    /\ UNCHANGED << hwFault, coldState, mtime, mtimecmp, mie, mcause, mepc,
                    SW_INTERRUPT_COUNT, YIELD_COUNT, LAST_YIELD_TIME,
                    HANDLER_CALLS, TIMER_STATS >>

\* Return after the forced clear, whose result is dropped (lines 217-218).
yield_cpu_done ==
    /\ FgAt("y_done")
    /\ fg' = IdleFg
    /\ ev' = [YieldEv("yield_cpu", "Ok", "forced_clear") EXCEPT !.trigger = "Ok"]
    /\ UNCHANGED << hwFault, coldState, msip, mtime, mtimecmp, mstatus, mie, mcause, mepc,
                    swStats, TIMER_STATS >>

\* -------------------------------------------------------- yield_cpu_relaxed
\* Step 5 of yield_cpu_relaxed (lines 465-472): both arms return Ok.
RelaxedResult_strict(final_count, initial_count) ==
    IF final_count > initial_count THEN "Ok" ELSE "Err"

RelaxedResult(final_count, initial_count) ==
    IF final_count > initial_count THEN "Ok" ELSE "Ok"

yield_cpu_relaxed_call ==
    /\ FgAt("idle")
    /\ YIELD_COUNT < MaxYields
    /\ YIELD_COUNT' = YIELD_COUNT + 1
    /\ LAST_YIELD_TIME' = SW_INTERRUPT_COUNT
    /\ msip' = 1
    /\ fg' = [CallWms(IdleFg, 1, "r_after_trigger") EXCEPT
                 !.op = "yield_cpu_relaxed", !.mie0 = Bit(mstatus, MSTATUS_MIE_BIT)]
    /\ ev' = NoEv
    /\ UNCHANGED << hwFault, coldState, mtime, mtimecmp, mstatus, mie, mcause, mepc,
                    SW_INTERRUPT_COUNT, MSIP_ERRORS, HANDLER_CALLS, TIMER_STATS >>

\* Result of the trigger; Step 2 (lines 417-431).
yield_cpu_relaxed_enable ==
    /\ FgAt("r_after_trigger")
    /\ IF fg.result # "Ok"
       THEN /\ fg' = IdleFg
            /\ ev' = YieldEv("yield_cpu_relaxed", "Err", "set_failed")
            /\ UNCHANGED mstatus
       ELSE LET was_enabled == interrupts_enabled(mstatus)
            IN  /\ mstatus' = EnableForWait(was_enabled, mstatus)
                /\ fg' = [fg EXCEPT !.pc = "r_count", !.was_enabled = was_enabled]
                /\ ev' = NoEv
    /\ UNCHANGED << hwFault, coldState, msip, mtime, mtimecmp, mie, mcause, mepc,
                    swStats, TIMER_STATS >>

\* Step 3 opens by reading the counter the loop polls (lines 434-438).
yield_cpu_relaxed_count ==
    /\ FgAt("r_count")
    /\ fg' = [fg EXCEPT !.pc = "r_wait", !.wait_count = 0,
                        !.initial_count = SW_INTERRUPT_COUNT]
    /\ ev' = NoEv
    /\ UNCHANGED << hwFault, coldState, msip, mtime, mtimecmp, mstatus, mie, mcause, mepc,
                    swStats, TIMER_STATS >>

yield_cpu_relaxed_wait ==
    /\ FgAt("r_wait")
    /\ fg.wait_count < max_wait_relaxed
    /\ LET wc == fg.wait_count + CheckInterval
           current_count == SW_INTERRUPT_COUNT
       IN  fg' = [fg EXCEPT !.wait_count = wc,
                            !.pc = IF current_count > fg.initial_count
                                      \/ wc >= max_wait_relaxed
                                   THEN "r_restore" ELSE "r_wait"]
    /\ ev' = NoEv
    /\ UNCHANGED << hwFault, coldState, msip, mtime, mtimecmp, mstatus, mie, mcause, mepc,
                    swStats, TIMER_STATS >>

yield_cpu_relaxed_restore ==
    /\ FgAt("r_restore")
    /\ mstatus' = RestoreInterrupts(fg.was_enabled, mstatus)
    /\ LET final_count == SW_INTERRUPT_COUNT
       IN  ev' = YieldEv("yield_cpu_relaxed",
                         RelaxedResult(final_count, fg.initial_count),
                         IF final_count > fg.initial_count THEN "processed"
                                                            ELSE "timeout")
    /\ fg' = IdleFg
    /\ UNCHANGED << hwFault, coldState, msip, mtime, mtimecmp, mie, mcause, mepc,
                    swStats, TIMER_STATS >>

\* -------------------------------------------------- init_software_interrupt
\* Step 1: clear_software_interrupt's write (lines 19-24).
init_software_interrupt_call ==
    /\ FgAt("idle")
    /\ msip' = 0
    /\ fg' = [CallWms(IdleFg, 0, "i_after_clear") EXCEPT !.op = "init_software_interrupt"]
    /\ ev' = NoEv
    /\ UNCHANGED << hwFault, coldState, mtime, mtimecmp, mstatus, mie, mcause, mepc,
                    swStats, TIMER_STATS >>

\* Steps 2 to 4: enable MSIE, reset the statistics (lines 24-68).
init_software_interrupt_finish ==
    /\ FgAt("i_after_clear")
    /\ IF fg.result # "Ok"
       THEN /\ ev' = [op |-> "init_software_interrupt", result |-> "Err"]
            /\ UNCHANGED << mie, swStats >>
       ELSE /\ mie' = SetBit(mie, MIE_MSIE_BIT)
            /\ SW_INTERRUPT_COUNT' = 0
            /\ YIELD_COUNT' = 0
            /\ LAST_YIELD_TIME' = 0
            /\ MSIP_ERRORS' = 0
            /\ HANDLER_CALLS' = 0
            /\ ev' = [op |-> "init_software_interrupt", result |-> "Ok"]
    /\ fg' = IdleFg
    /\ UNCHANGED << hwFault, coldState, msip, mtime, mtimecmp, mstatus, mcause, mepc, TIMER_STATS >>

\* ---------------------------------------- test_basic_msip_operations_simple
TestEv(result, stage) == [op |-> "test_basic_msip_operations_simple",
                          result |-> result, stage |-> stage]

\* Initial read and write_msip_safe(1)'s write (lines 485-491).
test_basic_call ==
    /\ FgAt("idle")
    /\ \E initial \in VolatileRead(msip, MsipReadDomain) :
        IF initial > 1
        THEN /\ MSIP_ERRORS + 1 <= MaxErrors
             /\ MSIP_ERRORS' = MSIP_ERRORS + 1
             /\ ev' = TestEv("Err", "initial_read")
             /\ UNCHANGED << msip, fg >>
        ELSE /\ msip' = 1
             /\ fg' = [CallWms(IdleFg, 1, "t_after_set") EXCEPT
                          !.op = "test_basic_msip_operations_simple"]
             /\ ev' = NoEv
             /\ UNCHANGED MSIP_ERRORS
    /\ UNCHANGED << hwFault, coldState, mtime, mtimecmp, mstatus, mie, mcause, mepc,
                    SW_INTERRUPT_COUNT, YIELD_COUNT, LAST_YIELD_TIME,
                    HANDLER_CALLS, TIMER_STATS >>

\* Result of the set, the read after it, write_msip_safe(0)'s write
\* (lines 491-501).
test_basic_after_set ==
    /\ FgAt("t_after_set")
    /\ IF fg.result # "Ok"
       THEN /\ fg' = IdleFg
            /\ ev' = TestEv("Err", "set")
            /\ UNCHANGED << msip, MSIP_ERRORS >>
       ELSE \E after_set \in VolatileRead(msip, MsipReadDomain) :
            CASE after_set > 1 ->
                    /\ MSIP_ERRORS + 1 <= MaxErrors
                    /\ MSIP_ERRORS' = MSIP_ERRORS + 1
                    /\ fg' = IdleFg
                    /\ ev' = TestEv("Err", "read_after_set")
                    /\ UNCHANGED msip
              [] after_set = 0 ->
                    /\ fg' = IdleFg
                    /\ ev' = TestEv("Err", "read_after_set")
                    /\ UNCHANGED << msip, MSIP_ERRORS >>
              [] OTHER ->
                    /\ msip' = 0
                    /\ fg' = CallWms(fg, 0, "t_after_clear")
                    /\ ev' = NoEv
                    /\ UNCHANGED MSIP_ERRORS
    /\ UNCHANGED << hwFault, coldState, mtime, mtimecmp, mstatus, mie, mcause, mepc,
                    SW_INTERRUPT_COUNT, YIELD_COUNT, LAST_YIELD_TIME,
                    HANDLER_CALLS, TIMER_STATS >>

\* Result of the clear and the read after it (lines 501-510).
test_basic_after_clear ==
    /\ FgAt("t_after_clear")
    /\ IF fg.result # "Ok"
       THEN /\ ev' = TestEv("Err", "clear")
            /\ UNCHANGED MSIP_ERRORS
       ELSE \E after_clear \in VolatileRead(msip, MsipReadDomain) :
            CASE after_clear > 1 ->
                    /\ MSIP_ERRORS + 1 <= MaxErrors
                    /\ MSIP_ERRORS' = MSIP_ERRORS + 1
                    /\ ev' = TestEv("Err", "read_after_clear")
              [] after_clear = 1 ->
                    /\ ev' = TestEv("Err", "read_after_clear")
                    /\ UNCHANGED MSIP_ERRORS
              [] OTHER ->
                    /\ ev' = TestEv("Ok", "done")
                    /\ UNCHANGED MSIP_ERRORS
    /\ fg' = IdleFg
    /\ UNCHANGED << hwFault, coldState, msip, mtime, mtimecmp, mstatus, mie, mcause, mepc,
                    SW_INTERRUPT_COUNT, YIELD_COUNT, LAST_YIELD_TIME,
                    HANDLER_CALLS, TIMER_STATS >>

\* ------------------------------------------------- interrupt-enable helpers
\* csr::enable_global_interrupts / csr::disable_global_interrupts, called by
\* the foreground (main.rs:248).
enable_global_interrupts ==
    /\ FgAt("idle")
    /\ ~interrupts_enabled(mstatus)
    /\ mstatus' = SetBit(mstatus, MSTATUS_MIE_BIT)
    /\ ev' = NoEv
    /\ UNCHANGED << hwFault, coldState, msip, mtime, mtimecmp, mie, mcause, mepc,
                    swStats, TIMER_STATS, fg >>

disable_global_interrupts ==
    /\ FgAt("idle")
    /\ interrupts_enabled(mstatus)
    /\ mstatus' = ClearBit(mstatus, MSTATUS_MIE_BIT)
    /\ ev' = NoEv
    /\ UNCHANGED << hwFault, coldState, msip, mtime, mtimecmp, mie, mcause, mepc,
                    swStats, TIMER_STATS, fg >>

\* csr::enable_machine_timer_interrupt (main.rs:210).
enable_machine_timer_interrupt ==
    /\ FgAt("idle")
    /\ Bit(mie, MIE_MTIE_BIT) = 0
    /\ mie' = SetBit(mie, MIE_MTIE_BIT)
    /\ ev' = NoEv
    /\ UNCHANGED << hwFault, coldState, msip, mtime, mtimecmp, mstatus, mcause, mepc,
                    swStats, TIMER_STATS, fg >>

\* ------------------------------------------------------ ClintTimer::set_alarm
\* The verdict of set_alarm on its readback (timer.rs:155-162).
AlarmResult_trusting(readback, when) == "Ok"

AlarmResult(readback, when) == IF readback = when THEN "Ok" ELSE "HardwareFault"

\* write_mtimecmp(when) ...
set_alarm_call ==
    /\ FgAt("idle")
    /\ TIMER_STATS.alarms_set + TIMER_STATS.errors < MaxAlarmsSet
    /\ \E when \in 0 .. MaxAlarm :
        /\ mtimecmp' = when
        /\ fg' = [IdleFg EXCEPT !.pc = "sa_verify", !.op = "set_alarm", !.when = when]
    /\ ev' = NoEv
    /\ UNCHANGED << hwFault, coldState, msip, mtime, mstatus, mie, mcause, mepc,
                    swStats, TIMER_STATS >>

\* TimerStats::record_alarm_set / record_error: the counter a call counts
\* in, and the statistics once `loaded + 1` is stored to it.  The counters
\* are plain fields of a static mut: the increment is a load, an add and a
\* store, and the timer interrupt can be taken between them.
StatLoaded(stats, result) ==
    IF result = "Ok" THEN stats.alarms_set ELSE stats.errors

StatStored(stats, result, loaded) ==
    IF result = "Ok"
    THEN [stats EXCEPT !.alarms_set = loaded + 1]
    ELSE [stats EXCEPT !.errors = loaded + 1]

\* ... the verification readback, and the load of the counter to increment ...
set_alarm_verify ==
    /\ FgAt("sa_verify")
    /\ \E readback \in VolatileRead(mtimecmp, CmpReadDomain) :
        LET r == AlarmResult(readback, fg.when)
        IN  /\ fg' = [fg EXCEPT !.pc = "ts_record", !.result = r,
                                 !.value = StatLoaded(TIMER_STATS, r)]
            /\ ev' = [op |-> "set_alarm", when |-> fg.when, readback |-> readback,
                      result |-> r]
    /\ UNCHANGED << hwFault, coldState, msip, mtime, mtimecmp, mstatus, mie, mcause, mepc,
                    swStats, TIMER_STATS >>

\* ... and the store of the incremented counter, after which the call returns.
TimerStats_record ==
    /\ FgAt("ts_record")
    /\ TIMER_STATS' = StatStored(TIMER_STATS, fg.result, fg.value)
    /\ ev' = [op |-> "record", call |-> fg.op, result |-> fg.result,
              loaded |-> fg.value, stats0 |-> TIMER_STATS]
    /\ fg' = IdleFg
    /\ UNCHANGED << hwFault, coldState, msip, mtime, mtimecmp, mstatus, mie, mcause, mepc, swStats >>

\* -------------------------------------------------- synchronous exceptions
\* Where the foreground resumes after a synchronous trap taken at PC p: past
\* the instruction if the handler advanced mepc, else on the instruction
\* again, which traps again.
AfterException(p, new_mepc) == IF new_mepc = p THEN "refault" ELSE "idle"

\* trap::test_ecall_safe: the ecall instruction traps with cause 11.
test_ecall_safe ==
    /\ FgAt("idle")
    /\ \E p \in PcValues :
        /\ TakeTrap(EXCEPTION_ECALL_MMODE, p)
        /\ fg' = [IdleFg EXCEPT !.pc = AfterException(p, mepc')]

\* A foreground instruction raises another synchronous exception.
FaultingInstruction ==
    /\ FgAt("idle")
    /\ \E p \in PcValues :
        /\ TakeTrap(EXCEPTION_ILLEGAL_INSTR, p)
        /\ fg' = [IdleFg EXCEPT !.pc = AfterException(p, mepc')]

\* The instruction the handler returned to traps again.
Refault ==
    /\ FgAt("refault")
    /\ TakeTrap(mcause, mepc)
    /\ fg' = [IdleFg EXCEPT !.pc = AfterException(mepc, mepc')]

\* ------------------------------------------------------------ specification
Next ==
    \/ SoftwareIrq
    \/ TimerIrq
    \/ Tick
    \/ write_msip_safe_call
    \/ write_msip_safe_verify
    \/ safe_msip_write_call
    \/ safe_msip_write_verify
    \/ yield_cpu_call
    \/ yield_cpu_enable
    \/ yield_cpu_wait
    \/ yield_cpu_restore
    \/ yield_cpu_done
    \/ yield_cpu_relaxed_call
    \/ yield_cpu_relaxed_enable
    \/ yield_cpu_relaxed_count
    \/ yield_cpu_relaxed_wait
    \/ yield_cpu_relaxed_restore
    \/ init_software_interrupt_call
    \/ init_software_interrupt_finish
    \/ test_basic_call
    \/ test_basic_after_set
    \/ test_basic_after_clear
    \/ enable_global_interrupts
    \/ disable_global_interrupts
    \/ enable_machine_timer_interrupt
    \/ set_alarm_call
    \/ set_alarm_verify
    \/ TimerStats_record
    \/ test_ecall_safe
    \/ FaultingInstruction
    \/ Refault

Spec == Init /\ [][Next]_vars

\* ------------------------------------------------- trap injection harness
\* The handler run once on an arbitrary cause and exception PC, as a test
\* harness injects them into a freshly set up machine.
InitInject == Init

InjectTrap ==
    /\ ev = NoEv
    /\ \E c \in Word, p \in PcValues : TakeTrap(c, p)
    /\ UNCHANGED fg

NextInject == InjectTrap

SpecInject == InitInject /\ [][NextInject]_vars

\* ------------------------------------------------------- tick conversions
\* Timer::ticks_to_ms and Timer::ms_to_ticks of ClintTimer, whose frequency
\* field is TIMER_FREQ.  The product is a 64-bit multiplication in the
\* source; here it wraps at TIMER_BITS bits.
ticks_to_ms(ticks) == ticks \div (TIMER_FREQ \div 1000)

ms_to_ticks_hz(ms) == (ms * (TIMER_FREQ \div 100)) % Pow2(TIMER_BITS)

ms_to_ticks(ms) == (ms * (TIMER_FREQ \div 1000)) % Pow2(TIMER_BITS)

\* The conversion test of test::basic (timer.rs:540-556) on any test_ms.
InitConvert == Init

conversion_test ==
    /\ ev = NoEv
    /\ \E test_ms \in 0 .. MaxMs :
        LET ticks == ms_to_ticks(test_ms)
            back_to_ms == ticks_to_ms(ticks)
        IN  ev' = [op |-> "conversion_test", test_ms |-> test_ms, ticks |-> ticks,
                   back_to_ms |-> back_to_ms]
    /\ UNCHANGED << hwFault, coldState, msip, mtime, mtimecmp, mstatus, mie, mcause,
                    mepc, swStats, TIMER_STATS, fg >>

NextConvert == conversion_test

SpecConvert == InitConvert /\ [][NextConvert]_vars

\* ------------------------------------------------------ panic and recovery
\* u64::MAX as the timer registers hold it, and the address of _start.
U64_MAX == Pow2(TIMER_BITS) - 1
reset_addr == Pow2(XLEN - 2)

\* Memory addresses are written as byte offsets from the first byte of RAM,
\* 0x80000000: an address below RAM is negative.  The RAM window is
\* [0x80000000, 0x88000000) and the boot code sets the stack base to
\* 0x80100000.
ram_start == 0
ram_end == 134217728
stack_start == 1048576
stack_top == 1048576

\* Stack-pointer values: below RAM, the first byte of RAM, inside the stack,
\* the stack base, above it inside RAM, the last double word and the last
\* word of RAM, and the end of RAM.
SpValues ==
    {ram_start - 8, ram_start, stack_top - 64, stack_top, stack_top + 8,
     ram_end - 8, ram_end - 4, ram_end}

\* The fatal conditions the sources raise as panics, and the error types
\* decide_recovery_action is asked about.
PanicKinds == {"trap_error", "assertion_failure", "memory_corruption", "stack_overflow"}
ErrorTypes == PanicKinds \cup {"unrecognized"}

\* debug::decide_recovery_action
decide_recovery_action_ge7(error_type, severity) ==
    CASE error_type = "memory_corruption" ->
            IF severity >= 7 THEN "SoftReset"
            ELSE IF severity >= 5 THEN "SafeMode" ELSE "ContinueUnsafe"
      [] error_type = "stack_overflow" -> "SoftReset"
      [] error_type = "trap_error" -> "SafeMode"
      [] error_type = "assertion_failure" ->
            IF severity >= 7 THEN "Halt" ELSE "SafeMode"
      [] OTHER -> "Halt"

decide_recovery_action(error_type, severity) ==
    CASE error_type = "memory_corruption" ->
            IF severity >= 8 THEN "SoftReset"
            ELSE IF severity >= 5 THEN "SafeMode" ELSE "ContinueUnsafe"
      [] error_type = "stack_overflow" -> "SoftReset"
      [] error_type = "trap_error" -> "SafeMode"
      [] error_type = "assertion_failure" ->
            IF severity >= 7 THEN "Halt" ELSE "SafeMode"
      [] OTHER -> "Halt"

\* The function each arm of execute_recovery_action calls (debug.rs:522-556),
\* as the position of its first statement.
RecoveryEntry_resume(action) ==
    CASE action = "Halt" -> "h_disable"
      [] action = "SoftReset" -> "sr_disable"
      [] action = "SafeMode" -> "esm_disable"
      [] action = "ContinueUnsafe" -> "idle"

RecoveryEntry(action) ==
    CASE action = "Halt" -> "h_disable"
      [] action = "SoftReset" -> "sr_disable"
      [] action = "SafeMode" -> "esm_disable"
      [] action = "ContinueUnsafe" -> "esm_disable"

\* decide_recovery_action and execute_recovery_action up to the call of the
\* selected function.
execute_recovery_action ==
    /\ FgAt("idle")
    /\ \E error_type \in ErrorTypes, severity \in 0 .. MaxSeverity :
        LET action == decide_recovery_action(error_type, severity)
        IN  /\ fg' = [IdleFg EXCEPT !.pc = RecoveryEntry(action),
                                    !.op = "execute_recovery_action",
                                    !.action = action,
                                    !.mie0 = Bit(mstatus, MSTATUS_MIE_BIT)]
            /\ ev' = [op |-> "execute_recovery_action", error_type |-> error_type,
                      severity |-> severity, action |-> action,
                      entry |-> RecoveryEntry(action)]
    /\ UNCHANGED << hwFault, coldState, msip, mtime, mtimecmp, mstatus, mie, mcause,
                    mepc, swStats, TIMER_STATS >>

\* A panic!() reaches the #[panic_handler] (main.rs:572-575), with the stack
\* pointer at the value print_stack_info will read.
panic ==
    /\ FgAt("idle")
    /\ \E kind \in PanicKinds, sp \in SpValues :
        /\ fg' = [IdleFg EXCEPT !.pc = "p_entry", !.op = "panic", !.kind = kind,
                                !.mie0 = Bit(mstatus, MSTATUS_MIE_BIT),
                                !.sp = sp]
        /\ ev' = [op |-> "panic", kind |-> kind]
    /\ UNCHANGED << hwFault, coldState, msip, mtime, mtimecmp, mstatus, mie, mcause,
                    mepc, swStats, TIMER_STATS >>

\* mstatus after the first statement of enhanced_panic_handler.
PanicEntryStatus_kept(mstatus_v) == mstatus_v

PanicEntryStatus(mstatus_v) == ClearBit(mstatus_v, MSTATUS_MIE_BIT)

\* enhanced_panic_handler: disable_global_interrupts (lines 27-29) ...
enhanced_panic_handler_disable ==
    /\ FgAt("p_entry")
    /\ mstatus' = PanicEntryStatus(mstatus)
    /\ fg' = [fg EXCEPT !.pc = "p_stats"]
    /\ ev' = NoEv
    /\ UNCHANGED << hwFault, coldState, msip, mtime, mtimecmp, mie, mcause, mepc,
                    swStats, TIMER_STATS >>

\* ... the statistics update (lines 32-34) ...
enhanced_panic_handler_stats ==
    /\ FgAt("p_stats")
    /\ PANIC_COUNT' = PANIC_COUNT + 1
    /\ fg' = [fg EXCEPT !.pc = "p_capture"]
    /\ ev' = [op |-> "panic_stats", mie_bit |-> Bit(mstatus, MSTATUS_MIE_BIT)]
    /\ UNCHANGED << hwFault, TICKS, LAST_PANIC_PC, stack, mem, guard, msip, mtime, mtimecmp,
                    mstatus, mie, mcause, mepc, swStats, TIMER_STATS >>

\* ... capture_system_state and print_system_state (lines 44-46) ...
enhanced_panic_handler_capture ==
    /\ FgAt("p_capture")
    /\ LAST_PANIC_PC' = mepc
    /\ fg' = [fg EXCEPT !.pc = "p_stack"]
    /\ ev' = [op |-> "panic_capture", mie_bit |-> Bit(mstatus, MSTATUS_MIE_BIT),
              panic_state |-> [mstatus |-> mstatus, mcause |-> mcause,
                               mepc |-> mepc, mie |-> mie]]
    /\ UNCHANGED << hwFault, TICKS, PANIC_COUNT, stack, mem, guard, msip, mtime, mtimecmp,
                    mstatus, mie, mcause, mepc, swStats, TIMER_STATS >>

\* panic::print_stack_dump: the addresses it reads, one double word after
\* another from sp until one is outside the RAM window.
RECURSIVE StackDumpFrom(_, _)
StackDumpFrom(sp, i) ==
    IF i >= StackDumpWords THEN {}
    ELSE LET addr == sp + (i * 8)
         IN  IF addr >= ram_start /\ addr < ram_end
             THEN {addr} \cup StackDumpFrom(sp, i + 1)
             ELSE {}

print_stack_dump_unchecked(sp) == {sp + (i * 8) : i \in 0 .. (StackDumpWords - 1)}

print_stack_dump(sp) == StackDumpFrom(sp, 0)

\* The stack-usage subtraction of print_stack_info, made when sp passed the
\* RAM range check: `stack_start - sp` in usize.
StackUsed(sp) == stack_start - sp

\* ... print_stack_info (lines 225-277) with its stack dump, and the
\* remaining reports up to the call of halt_system (lines 49-62).  A
\* subtraction that goes below zero panics in a build with overflow checks,
\* which enters the panic handler again on a deeper frame, and wraps in a
\* build without them.
enhanced_panic_handler_stack ==
    /\ FgAt("p_stack")
    /\ LET sp == fg.sp
           valid == sp >= ram_start /\ sp < ram_end
           stack_used == IF valid THEN StackUsed(sp) ELSE 0
           underflow == stack_used < 0
       IN  \E checked \in (IF underflow /\ PANIC_COUNT < MaxPanics
                            THEN BOOLEAN ELSE {FALSE}) :
              /\ fg' = IF checked
                       THEN [fg EXCEPT !.pc = "p_entry", !.sp = sp - PanicFrame]
                       ELSE [fg EXCEPT !.pc = "h_disable"]
              /\ ev' = [op |-> "print_stack_info", sp |-> sp, valid |-> valid,
                        stack_used |-> stack_used,
                        reads |-> IF checked THEN {} ELSE print_stack_dump(sp)]
    /\ UNCHANGED << hwFault, coldState, msip, mtime, mtimecmp, mstatus, mie, mcause,
                    mepc, swStats, TIMER_STATS >>

\* halt_system: disable_global_interrupts and write_mie(0) (lines 477-480) ...
halt_system_disable ==
    /\ FgAt("h_disable")
    /\ mstatus' = ClearBit(mstatus, MSTATUS_MIE_BIT)
    /\ mie' = 0
    /\ fg' = [fg EXCEPT !.pc = "h_stop"]
    /\ ev' = NoEv
    /\ UNCHANGED << hwFault, coldState, msip, mtime, mtimecmp, mcause, mepc,
                    swStats, TIMER_STATS >>

\* ... and the writes of MTIMECMP and MSIP (lines 483-493).
halt_system_stop_timer_only ==
    /\ FgAt("h_stop")
    /\ mtimecmp' = U64_MAX
    /\ msip' = msip
    /\ fg' = [fg EXCEPT !.pc = "halted"]
    /\ ev' = NoEv
    /\ UNCHANGED << hwFault, coldState, mtime, mstatus, mie, mcause, mepc,
                    swStats, TIMER_STATS >>

halt_system_stop ==
    /\ FgAt("h_stop")
    /\ mtimecmp' = U64_MAX
    /\ msip' = 0
    /\ fg' = [fg EXCEPT !.pc = "halted"]
    /\ ev' = NoEv
    /\ UNCHANGED << hwFault, coldState, mtime, mstatus, mie, mcause, mepc,
                    swStats, TIMER_STATS >>

\* The wfi loops closing halt_system (lines 496-501) and the SafeMode and
\* ContinueUnsafe arms of execute_recovery_action (debug.rs:537-541, 550-554).
wfi_loop ==
    /\ fg.pc \in {"halted", "idle_wait"}
    /\ ~IrqDeliverable
    /\ ev' = [op |-> "wfi"]
    /\ UNCHANGED << hwFault, coldState, msip, mtime, mtimecmp, mstatus, mie, mcause,
                    mepc, swStats, TIMER_STATS, fg >>

\* debug::stop_all_hardware
stop_all_hardware ==
    /\ mtimecmp' = U64_MAX
    /\ msip' = 0

\* enter_safe_mode: disable_global_interrupts (lines 342-344) ...
enter_safe_mode_disable ==
    /\ FgAt("esm_disable")
    /\ mstatus' = ClearBit(mstatus, MSTATUS_MIE_BIT)
    /\ fg' = [fg EXCEPT !.pc = "esm_stop"]
    /\ ev' = NoEv
    /\ UNCHANGED << hwFault, coldState, msip, mtime, mtimecmp, mie, mcause, mepc,
                    swStats, TIMER_STATS >>

\* ... stop_all_hardware and the call of safe_mode_shell (lines 347-356).
enter_safe_mode_stop ==
    /\ FgAt("esm_stop")
    /\ stop_all_hardware
    /\ fg' = [fg EXCEPT !.pc = "shell", !.command_count = 0]
    /\ ev' = NoEv
    /\ UNCHANGED << hwFault, coldState, mtime, mstatus, mie, mcause, mepc,
                    swStats, TIMER_STATS >>

\* One pass of the loop of safe_mode_shell, or its exit (lines 369-408).
safe_mode_shell ==
    /\ FgAt("shell")
    /\ IF fg.command_count < max_commands
       THEN LET cmd == demo_commands[(fg.command_count % 3) + 1]
            IN  /\ fg' = IF cmd = "reset"
                         THEN [fg EXCEPT !.pc = "sr_disable"]
                         ELSE [fg EXCEPT !.command_count = @ + 1]
                /\ ev' = [op |-> "safe_mode_shell", cmd |-> cmd,
                          command_count |-> fg.command_count]
       ELSE /\ fg' = [fg EXCEPT !.pc = "idle_wait"]
            /\ ev' = NoEv
    /\ UNCHANGED << hwFault, coldState, msip, mtime, mtimecmp, mstatus, mie, mcause,
                    mepc, swStats, TIMER_STATS >>

\* soft_reset, Step 1: disable_global_interrupts and write_mie(0)
\* (lines 238-241).
soft_reset_disable ==
    /\ FgAt("sr_disable")
    /\ mstatus' = ClearBit(mstatus, MSTATUS_MIE_BIT)
    /\ mie' = 0
    /\ fg' = [fg EXCEPT !.pc = "sr_stop"]
    /\ ev' = NoEv
    /\ UNCHANGED << hwFault, coldState, msip, mtime, mtimecmp, mcause, mepc,
                    swStats, TIMER_STATS >>

\* Step 2: stop_all_hardware (line 245).
soft_reset_stop ==
    /\ FgAt("sr_stop")
    /\ stop_all_hardware
    /\ fg' = [fg EXCEPT !.pc = "sr_clear"]
    /\ ev' = NoEv
    /\ UNCHANGED << hwFault, coldState, mtime, mstatus, mie, mcause, mepc,
                    swStats, TIMER_STATS >>

\* debug::clear_temporary_memory: the bytes write_bytes zero-fills for a
\* stack pointer value, as the first address and the length.
clear_temporary_memory(current_sp) ==
    IF current_sp < stack_top
    THEN [first |-> current_sp, clear_size |-> stack_top - current_sp]
    ELSE [first |-> current_sp, clear_size |-> 0]

\* Step 3: clear_temporary_memory (lines 299-320) zero-fills the bytes from
\* its own stack pointer to the stack base, the frames of its callers and the
\* slot of its own return address included.  A build that keeps the return
\* address in a register returns to soft_reset; a build that reloads it from
\* the frame returns to address 0.
soft_reset_clear ==
    /\ FgAt("sr_clear")
    /\ \E current_sp \in SpValues :
        LET fill == clear_temporary_memory(current_sp)
        IN  /\ stack' = IF fill.clear_size > 0 THEN "zeroed" ELSE stack
            /\ \E ra_kept \in (IF fill.clear_size > 0 THEN BOOLEAN ELSE {TRUE}) :
                fg' = [fg EXCEPT !.pc = IF ra_kept THEN "sr_reinit" ELSE "ret_zero"]
            /\ ev' = [op |-> "clear_temporary_memory", current_sp |-> current_sp,
                      first |-> fill.first, clear_size |-> fill.clear_size]
    /\ UNCHANGED << hwFault, TICKS, PANIC_COUNT, LAST_PANIC_PC, mem, guard, msip, mtime,
                    mtimecmp, mstatus, mie, mcause, mepc, swStats, TIMER_STATS >>

\* The instruction fetch at address 0 raises an instruction access fault.
return_to_zero ==
    /\ FgAt("ret_zero")
    /\ TakeTrap(EXCEPTION_INSTR_ACCESS_FAULT, 0)
    /\ fg' = [IdleFg EXCEPT !.pc = AfterException(0, mepc')]

\* Step 4: reinitialize_csrs (lines 323-335).
soft_reset_reinit ==
    /\ FgAt("sr_reinit")
    /\ mepc' = 0
    /\ mstatus' = MSTATUS_MPP_MACHINE * Pow2(MSTATUS_MPP_SHIFT)
    /\ mie' = 0
    /\ fg' = [fg EXCEPT !.pc = "sr_jump"]
    /\ ev' = NoEv
    /\ UNCHANGED << hwFault, coldState, msip, mtime, mtimecmp, mcause,
                    swStats, TIMER_STATS >>

\* mstatus after mret: MIE takes the value of MPIE, MPIE is set, MPP is
\* cleared.
Mret(mstatus_v) ==
    LET mpp == (mstatus_v \div Pow2(MSTATUS_MPP_SHIFT)) % 4
        no_mpp == mstatus_v - mpp * Pow2(MSTATUS_MPP_SHIFT)
        restored == IF Bit(no_mpp, MSTATUS_MPIE_BIT) = 1
                    THEN SetBit(no_mpp, MSTATUS_MIE_BIT)
                    ELSE ClearBit(no_mpp, MSTATUS_MIE_BIT)
    IN  SetBit(restored, MSTATUS_MPIE_BIT)

\* Step 5: write_mepc(_start) and mret (lines 262-270).
soft_reset_jump ==
    /\ FgAt("sr_jump")
    /\ mepc' = reset_addr
    /\ mstatus' = Mret(mstatus)
    /\ fg' = [fg EXCEPT !.pc = "reset_entry"]
    /\ ev' = [op |-> "mret", mepc |-> reset_addr, mstatus0 |-> mstatus]
    /\ UNCHANGED << hwFault, coldState, msip, mtime, mtimecmp, mie, mcause,
                    swStats, TIMER_STATS >>

\* A fatal condition arises in any state of the interrupt sources.
InitRecovery ==
    /\ hwFault \in BOOLEAN
    /\ msip \in {0, 1}
    /\ mtime = 0
    /\ mtimecmp \in 0 .. MaxAlarm
    /\ mstatus \in {0, Pow2(MSTATUS_MIE_BIT)}
    /\ mie \in {0, Pow2(MIE_MSIE_BIT), Pow2(MIE_MTIE_BIT),
                Pow2(MIE_MSIE_BIT) + Pow2(MIE_MTIE_BIT)}
    /\ mcause = 0
    /\ mepc = 0
    /\ SW_INTERRUPT_COUNT = 0
    /\ YIELD_COUNT = 0
    /\ LAST_YIELD_TIME = 0
    /\ MSIP_ERRORS = 0
    /\ HANDLER_CALLS = 0
    /\ TIMER_STATS = [interrupts |-> 0, alarms_set |-> 0, errors |-> 0, total_ticks |-> 0]
    /\ TICKS = 0
    /\ PANIC_COUNT = 0
    /\ LAST_PANIC_PC = 0
    /\ stack = "live"
    /\ mem = ZeroMem
    /\ guard = NoGuard
    /\ fg = IdleFg
    /\ ev = NoEv

NextRecovery ==
    \/ SoftwareIrq
    \/ TimerIrq
    \/ Tick
    \/ panic
    \/ enhanced_panic_handler_disable
    \/ enhanced_panic_handler_stats
    \/ enhanced_panic_handler_capture
    \/ enhanced_panic_handler_stack
    \/ halt_system_disable
    \/ halt_system_stop
    \/ wfi_loop
    \/ execute_recovery_action
    \/ enter_safe_mode_disable
    \/ enter_safe_mode_stop
    \/ safe_mode_shell
    \/ soft_reset_disable
    \/ soft_reset_stop
    \/ soft_reset_clear
    \/ return_to_zero
    \/ soft_reset_reinit
    \/ soft_reset_jump
    \/ Refault

SpecRecovery == InitRecovery /\ [][NextRecovery]_vars

\* ------------------------------------------------------- ClintTimer::stop
\* The verdict of stop on its readback (timer.rs:170-176).
StopResult_trusting(readback) == "Ok"

StopResult(readback) == IF readback = U64_MAX THEN "Ok" ELSE "HardwareFault"

\* write_mtimecmp(u64::MAX) ...
stop_call ==
    /\ FgAt("idle")
    /\ TIMER_STATS.alarms_set + TIMER_STATS.errors < MaxAlarmsSet
    /\ mtimecmp' = U64_MAX
    /\ fg' = [IdleFg EXCEPT !.pc = "st_verify", !.op = "stop", !.when = U64_MAX]
    /\ ev' = NoEv
    /\ UNCHANGED << hwFault, coldState, msip, mtime, mstatus, mie, mcause, mepc,
                    swStats, TIMER_STATS >>

\* ... and the verification readback; a failure is counted by
\* TimerStats::record_error before the call returns.
stop_verify ==
    /\ FgAt("st_verify")
    /\ \E readback \in VolatileRead(mtimecmp, CmpReadDomain) :
        LET r == StopResult(readback)
        IN  /\ fg' = IF r = "Ok"
                     THEN IdleFg
                     ELSE [fg EXCEPT !.pc = "ts_record", !.result = r,
                                     !.value = StatLoaded(TIMER_STATS, r)]
            /\ ev' = [op |-> "stop", readback |-> readback, result |-> r]
    /\ UNCHANGED << hwFault, coldState, msip, mtime, mtimecmp, mstatus, mie, mcause, mepc,
                    swStats, TIMER_STATS >>

\* The operations of the interrupt controller called from any setting of
\* the interrupt enables, with the traps they meet.
InitController == InitRecovery

NextController ==
    \/ SoftwareIrq
    \/ TimerIrq
    \/ Tick
    \/ write_msip_safe_call
    \/ write_msip_safe_verify
    \/ yield_cpu_call
    \/ yield_cpu_enable
    \/ yield_cpu_wait
    \/ yield_cpu_restore
    \/ yield_cpu_done
    \/ yield_cpu_relaxed_call
    \/ yield_cpu_relaxed_enable
    \/ yield_cpu_relaxed_count
    \/ yield_cpu_relaxed_wait
    \/ yield_cpu_relaxed_restore
    \/ set_alarm_call
    \/ set_alarm_verify
    \/ TimerStats_record
    \/ stop_call
    \/ stop_verify

SpecController == InitController /\ [][NextController]_vars

\* ------------------------------------------------------------ timer cadence
\* MTIME runs on to the armed deadline.
RunToDeadline ==
    /\ mtime < mtimecmp
    /\ TIMER_STATS.interrupts < MaxTimerIrqs
    /\ mtime' = mtimecmp
    /\ ev' = NoEv
    /\ UNCHANGED << hwFault, coldState, msip, mtimecmp, mstatus, mie, mcause, mepc,
                    swStats, TIMER_STATS, fg >>

\* The main loop after Phase 12: global and timer interrupts enabled, a
\* deadline armed, the software interrupt enabled or not.
InitCadence ==
    /\ hwFault \in BOOLEAN
    /\ msip = 0
    /\ mtime = 0
    /\ mtimecmp \in 0 .. MaxAlarm
    /\ mstatus = Pow2(MSTATUS_MIE_BIT)
    /\ mie \in {Pow2(MIE_MTIE_BIT), Pow2(MIE_MTIE_BIT) + Pow2(MIE_MSIE_BIT)}
    /\ mcause = 0
    /\ mepc = 0
    /\ SW_INTERRUPT_COUNT = 0
    /\ YIELD_COUNT = 0
    /\ LAST_YIELD_TIME = 0
    /\ MSIP_ERRORS = 0
    /\ HANDLER_CALLS = 0
    /\ TIMER_STATS = [interrupts |-> 0, alarms_set |-> 0, errors |-> 0, total_ticks |-> 0]
    /\ TICKS = 0
    /\ PANIC_COUNT = 0
    /\ LAST_PANIC_PC = 0
    /\ stack = "live"
    /\ mem = ZeroMem
    /\ guard = NoGuard
    /\ fg = IdleFg
    /\ ev = NoEv

NextCadence ==
    \/ TimerIrq
    \/ SoftwareIrq
    \/ Tick
    \/ RunToDeadline
    \/ write_msip_safe_call
    \/ write_msip_safe_verify

\* The counter advances and the hart takes a deliverable interrupt.
SpecCadence ==
    /\ InitCadence
    /\ [][NextCadence]_vars
    /\ WF_vars(TimerIrq)
    /\ WF_vars(SoftwareIrq)
    /\ WF_vars(RunToDeadline)

\* ------------------------------------------------------------- busy waits
\* utils::delay_ms: start_time, delay_ticks and target_time (lines 306-308).
delay_ms_call ==
    /\ FgAt("idle")
    /\ \E ms \in 0 .. MaxDelayMs :
        LET start_time == mtime
            delay_ticks == ms_to_ticks(ms)
            target_time == start_time + delay_ticks
        IN  /\ target_time <= ms_to_ticks(MaxElapsedMs)
            /\ fg' = [IdleFg EXCEPT !.pc = "d_wait", !.op = "delay_ms",
                                    !.when = target_time]
    /\ ev' = NoEv
    /\ UNCHANGED << hwFault, coldState, msip, mtime, mtimecmp, mstatus, mie, mcause,
                    mepc, swStats, TIMER_STATS >>

\* One test of the loop condition `now() < target_time` (line 310): into
\* the loop body, or the return.
delay_ms_wait ==
    /\ FgAt("d_wait")
    /\ IF mtime < fg.when
       THEN /\ fg' = [fg EXCEPT !.pc = "d_nop"]
            /\ ev' = NoEv
       ELSE /\ fg' = IdleFg
            /\ ev' = [op |-> "delay_ms", target_time |-> fg.when, now |-> mtime]
    /\ UNCHANGED << hwFault, coldState, msip, mtime, mtimecmp, mstatus, mie, mcause,
                    mepc, swStats, TIMER_STATS >>

\* The loop body (lines 311-313): a nop, and back to the test.
delay_ms_nop ==
    /\ FgAt("d_nop")
    /\ fg' = [fg EXCEPT !.pc = "d_wait"]
    /\ ev' = NoEv
    /\ UNCHANGED << hwFault, coldState, msip, mtime, mtimecmp, mstatus, mie, mcause,
                    mepc, swStats, TIMER_STATS >>

\* MTIME as the next poll reads it a millisecond later.
Elapse ==
    /\ mtime + ms_to_ticks(1) <= ms_to_ticks(MaxElapsedMs)
    /\ mtime' = mtime + ms_to_ticks(1)
    /\ ev' = NoEv
    /\ UNCHANGED << hwFault, coldState, msip, mtimecmp, mstatus, mie, mcause, mepc,
                    swStats, TIMER_STATS, fg >>

\* The waits run from any setting of the global and software interrupt
\* enables, the timer interrupt not yet enabled.
InitWait ==
    /\ hwFault \in BOOLEAN
    /\ msip = 0
    /\ mtime = 0
    /\ mtimecmp = 0
    /\ mstatus \in {0, Pow2(MSTATUS_MIE_BIT)}
    /\ mie \in {0, Pow2(MIE_MSIE_BIT)}
    /\ mcause = 0
    /\ mepc = 0
    /\ SW_INTERRUPT_COUNT = 0
    /\ YIELD_COUNT = 0
    /\ LAST_YIELD_TIME = 0
    /\ MSIP_ERRORS = 0
    /\ HANDLER_CALLS = 0
    /\ TIMER_STATS = [interrupts |-> 0, alarms_set |-> 0, errors |-> 0, total_ticks |-> 0]
    /\ TICKS = 0
    /\ PANIC_COUNT = 0
    /\ LAST_PANIC_PC = 0
    /\ stack = "live"
    /\ mem = ZeroMem
    /\ guard = NoGuard
    /\ fg = IdleFg
    /\ ev = NoEv

\* What the hart itself does: the foreground statements and the traps it
\* takes.  A call starts while MSIP_ERRORS is below its cap, so that the cap
\* never stops a verification that is under way.
CpuStep ==
    \/ SoftwareIrq
    \/ (MSIP_ERRORS < MaxErrors /\ write_msip_safe_call)
    \/ write_msip_safe_verify
    \/ (MSIP_ERRORS < MaxErrors /\ yield_cpu_call)
    \/ yield_cpu_enable
    \/ yield_cpu_wait
    \/ yield_cpu_restore
    \/ yield_cpu_done
    \/ (MSIP_ERRORS < MaxErrors /\ yield_cpu_relaxed_call)
    \/ yield_cpu_relaxed_enable
    \/ yield_cpu_relaxed_count
    \/ yield_cpu_relaxed_wait
    \/ yield_cpu_relaxed_restore
    \/ delay_ms_call
    \/ delay_ms_wait
    \/ delay_ms_nop

NextWait ==
    \/ CpuStep
    \/ Elapse

\* The hart keeps executing; the counter keeps advancing on fault-free
\* hardware and may stop on faulty hardware.
SpecWait ==
    /\ InitWait
    /\ [][NextWait]_vars
    /\ WF_vars(CpuStep)
    /\ WF_vars(~hwFault /\ Elapse)

\* ------------------------------------------------------ memory diagnostics
\* Pointer values handed to the diagnostic readers: the stack pointer
\* values and the last words below the stack base.
PtrValues == SpValues \cup {ram_start + 4, stack_top - 8, stack_top - 4}

\* A read of RAM; words outside the modelled ones read as 0.
MemRead(m, addr) == IF addr \in DOMAIN m THEN m[addr] ELSE 0

\* debug::is_valid_address
is_valid_address_even_words(addr) ==
    addr >= ram_start /\ addr < ram_end /\ addr % 8 = 0

is_valid_address(addr) == addr >= ram_start /\ addr < ram_end /\ addr % 4 = 0

\* debug::calculate_checksum: the addresses its loop reads ...
RECURSIVE ChecksumReads_past_end(_, _)
ChecksumReads_past_end(addr, end) ==
    IF addr <= end
    THEN (IF is_valid_address(addr) THEN {addr} ELSE {})
            \cup ChecksumReads_past_end(addr + 4, end)
    ELSE {}

RECURSIVE ChecksumReads(_, _)
ChecksumReads(addr, end) ==
    IF addr < end /\ addr + 4 <= end
    THEN (IF is_valid_address(addr) THEN {addr} ELSE {})
            \cup ChecksumReads(addr + 4, end)
    ELSE {}

\* ... and the wrapping sum of the words read.
RECURSIVE SumWords(_, _)
SumWords(m, addrs) ==
    IF addrs = {} THEN 0
    ELSE LET a == CHOOSE x \in addrs : TRUE
         IN  (MemRead(m, a) + SumWords(m, addrs \ {a})) % Pow2(WORD_BITS)

calculate_checksum(start, end, m) == SumWords(m, ChecksumReads(start, end))

\* The ranges a MemoryGuard is created over: two whole words, one word, a
\* range starting below RAM, a range starting on an odd address, a range
\* ending inside a word, a range across the end of RAM, and an empty range.
GuardRanges ==
    { << 0, 8 >>, << 0, 4 >>, << 0 - 4, 8 >>, << 1, 9 >>, << 0, 6 >>,
      << 134217724, 134217732 >>, << 8, 8 >> }

\* MemoryGuard::new
MemoryGuard_new ==
    /\ FgAt("idle")
    /\ ~guard.active
    /\ \E r \in GuardRanges :
        /\ guard' = [active |-> TRUE, start |-> r[1], end |-> r[2],
                     checksum |-> calculate_checksum(r[1], r[2], mem),
                     baseline |-> mem]
        /\ ev' = [op |-> "guard_new", reads |-> ChecksumReads(r[1], r[2])]
    /\ UNCHANGED << hwFault, TICKS, PANIC_COUNT, LAST_PANIC_PC, stack, mem, msip,
                    mtime, mtimecmp, mstatus, mie, mcause, mepc, swStats,
                    TIMER_STATS, fg >>

\* MemoryGuard::update_checksum
MemoryGuard_update_checksum ==
    /\ FgAt("idle")
    /\ guard.active
    /\ guard' = [guard EXCEPT !.checksum = calculate_checksum(guard.start, guard.end, mem),
                              !.baseline = mem]
    /\ ev' = [op |-> "update_checksum", reads |-> ChecksumReads(guard.start, guard.end)]
    /\ UNCHANGED << hwFault, TICKS, PANIC_COUNT, LAST_PANIC_PC, stack, mem, msip,
                    mtime, mtimecmp, mstatus, mie, mcause, mepc, swStats,
                    TIMER_STATS, fg >>

\* MemoryGuard::check
MemoryGuard_check ==
    /\ FgAt("idle")
    /\ guard.active
    /\ ev' = [op |-> "check",
              result |-> (calculate_checksum(guard.start, guard.end, mem) = guard.checksum),
              reads |-> ChecksumReads(guard.start, guard.end)]
    /\ UNCHANGED << hwFault, coldState, msip, mtime, mtimecmp, mstatus, mie, mcause,
                    mepc, swStats, TIMER_STATS, fg >>

\* MemoryGuard::handle_corruption: analyze_memory_corruption reads the range
\* under the tests of the checksum loop, then panic!().
MemoryGuard_handle_corruption ==
    /\ FgAt("idle")
    /\ guard.active
    /\ \E sp \in SpValues :
        fg' = [IdleFg EXCEPT !.pc = "p_entry", !.op = "panic",
                             !.kind = "memory_corruption",
                             !.mie0 = Bit(mstatus, MSTATUS_MIE_BIT), !.sp = sp]
    /\ ev' = [op |-> "handle_corruption",
              reads |-> ChecksumReads(guard.start, guard.end)]
    /\ UNCHANGED << hwFault, coldState, msip, mtime, mtimecmp, mstatus, mie, mcause,
                    mepc, swStats, TIMER_STATS >>

\* A store of the running program to a word of RAM.
store ==
    /\ FgAt("idle")
    /\ \E a \in MemAddrs, v \in MemWords :
        /\ v # mem[a]
        /\ mem' = [mem EXCEPT ![a] = v]
        /\ Cardinality({x \in MemAddrs : mem'[x] # 0}) <= MaxDirty
        /\ ev' = [op |-> "store", addr |-> a]
    /\ UNCHANGED << hwFault, TICKS, PANIC_COUNT, LAST_PANIC_PC, stack, guard, msip,
                    mtime, mtimecmp, mstatus, mie, mcause, mepc, swStats,
                    TIMER_STATS, fg >>

\* debug::print_stack_trace: get_return_address and get_frame_pointer ...
print_stack_trace_call ==
    /\ FgAt("idle")
    /\ \E ra \in PtrValues, fp \in PtrValues :
        fg' = [IdleFg EXCEPT !.pc = "trace", !.op = "print_stack_trace",
                             !.ra = ra, !.fp = fp, !.depth = 0]
    /\ ev' = NoEv
    /\ UNCHANGED << hwFault, coldState, msip, mtime, mtimecmp, mstatus, mie, mcause,
                    mepc, swStats, TIMER_STATS >>

\* ... and one pass of its loop: the words read at fp and fp + 8 hold any
\* value.
print_stack_trace_step ==
    /\ FgAt("trace")
    /\ IF fg.depth < max_depth /\ is_valid_address(fg.ra) /\ is_valid_address(fg.fp)
               /\ fg.fp >= ram_start /\ fg.fp < stack_top
       THEN \E read_ra \in PtrValues, read_fp \in PtrValues :
              LET reads_ra == fg.fp + 8 < stack_top
              IN  /\ fg' = [fg EXCEPT !.ra = IF reads_ra THEN read_ra ELSE 0,
                                       !.fp = read_fp, !.depth = @ + 1]
                  /\ ev' = [op |-> "print_stack_trace",
                            reads |-> {fg.fp} \cup (IF reads_ra THEN {fg.fp + 8} ELSE {})]
       ELSE /\ fg' = IdleFg
            /\ ev' = [op |-> "print_stack_trace", reads |-> {}]
    /\ UNCHANGED << hwFault, coldState, msip, mtime, mtimecmp, mstatus, mie, mcause,
                    mepc, swStats, TIMER_STATS >>

\* main::safe_memory_dump: the addresses its loop reads.
RECURSIVE DumpReads(_, _, _, _)
DumpReads(start, safe_end, safe_length, i) ==
    IF i >= safe_length THEN {}
    ELSE LET addr == start + i
         IN  (IF addr + 8 <= safe_end THEN {addr} ELSE {})
                \cup (IF i >= DumpLimit THEN {}
                      ELSE DumpReads(start, safe_end, safe_length, i + 8))

DumpLengths == {0, 4, 8, 16, 100}

safe_memory_dump ==
    /\ FgAt("idle")
    /\ \E start \in PtrValues, length \in DumpLengths :
        LET end == start + length
            safe_end == IF end < ram_end THEN end ELSE ram_end
            safe_length == safe_end - start
        IN  ev' = [op |-> "safe_memory_dump", start |-> start, length |-> length,
                   reads |-> IF start < ram_start \/ start >= ram_end THEN {}
                             ELSE DumpReads(start, safe_end, safe_length, 0)]
    /\ UNCHANGED << hwFault, coldState, msip, mtime, mtimecmp, mstatus, mie, mcause,
                    mepc, swStats, TIMER_STATS, fg >>

\* The memory guard and the diagnostic readers run from any setting of the
\* global enable, with the interrupt sources off.
InitDiag ==
    /\ hwFault \in BOOLEAN
    /\ msip = 0
    /\ mtime = 0
    /\ mtimecmp = 0
    /\ mstatus \in {0, Pow2(MSTATUS_MIE_BIT)}
    /\ mie = 0
    /\ mcause = 0
    /\ mepc = 0
    /\ SW_INTERRUPT_COUNT = 0
    /\ YIELD_COUNT = 0
    /\ LAST_YIELD_TIME = 0
    /\ MSIP_ERRORS = 0
    /\ HANDLER_CALLS = 0
    /\ TIMER_STATS = [interrupts |-> 0, alarms_set |-> 0, errors |-> 0, total_ticks |-> 0]
    /\ TICKS = 0
    /\ PANIC_COUNT = 0
    /\ LAST_PANIC_PC = 0
    /\ stack = "live"
    /\ mem = ZeroMem
    /\ guard = NoGuard
    /\ fg = IdleFg
    /\ ev = NoEv

\* The guard over a memory the program keeps writing.
NextGuard ==
    \/ MemoryGuard_new
    \/ MemoryGuard_update_checksum
    \/ MemoryGuard_check
    \/ MemoryGuard_handle_corruption
    \/ store
    \/ enhanced_panic_handler_disable
    \/ enhanced_panic_handler_stats
    \/ enhanced_panic_handler_capture
    \/ enhanced_panic_handler_stack
    \/ halt_system_disable
    \/ halt_system_stop
    \/ wfi_loop

\* The guard reads RAM only, which the device fault does not reach.
InitGuard == InitDiag /\ ~hwFault /\ interrupts_enabled(mstatus)

SpecGuard == InitGuard /\ [][NextGuard]_vars

\* The readers of memory: the checksum, the stack trace, the memory dump
\* and the stack dump of the panic handler.
NextDiag ==
    \/ MemoryGuard_new
    \/ MemoryGuard_check
    \/ MemoryGuard_handle_corruption
    \/ print_stack_trace_call
    \/ print_stack_trace_step
    \/ safe_memory_dump
    \/ enhanced_panic_handler_disable
    \/ enhanced_panic_handler_stats
    \/ enhanced_panic_handler_capture
    \/ enhanced_panic_handler_stack
    \/ halt_system_disable
    \/ halt_system_stop
    \/ wfi_loop

SpecDiag == InitDiag /\ [][NextDiag]_vars

\* ------------------------------------------- interrupt-enable helpers, CSRs
\* The five helpers of csr.rs statement by statement: read the register,
\* change the named bit, write the register, read it back and judge.
CsrHelpers ==
    {"enable_machine_timer_interrupt", "enable_machine_external_interrupt",
     "enable_machine_software_interrupt", "enable_global_interrupts",
     "disable_global_interrupts"}

\* The register a helper reads and writes.
HelperRegister(h) ==
    IF h \in {"enable_global_interrupts", "disable_global_interrupts"}
    THEN "mstatus" ELSE "mie"

\* The bit a helper names.
HelperBit(h) ==
    CASE h = "enable_machine_timer_interrupt" -> MIE_MTIE_BIT
      [] h = "enable_machine_external_interrupt" -> MIE_MEIE_BIT
      [] h = "enable_machine_software_interrupt" -> MIE_MSIE_BIT
      [] OTHER -> MSTATUS_MIE_BIT

\* The value of the bit a helper asks for.
HelperRequested(h) == IF h = "disable_global_interrupts" THEN 0 ELSE 1

\* The value a helper writes: `reg |= bit`, or `reg &= !bit`.
HelperValue_overwrite(h, read) ==
    IF HelperRequested(h) = 1 THEN Pow2(HelperBit(h)) ELSE 0

HelperValue(h, read) ==
    IF HelperRequested(h) = 1
    THEN SetBit(read, HelperBit(h))
    ELSE ClearBit(read, HelperBit(h))

\* The verdict on the readback.
HelperResult(h, readback) ==
    IF Bit(readback, HelperBit(h)) = HelperRequested(h)
    THEN "Ok" ELSE "HardwareFault"

\* What a CSR holds after a write of `value`: on failing hardware the named
\* bit may keep the value it had.
CsrStored(old, value, bit) ==
    IF hwFault
    THEN {value, IF Bit(old, bit) = 1 THEN SetBit(value, bit) ELSE ClearBit(value, bit)}
    ELSE {value}

RegisterValue(h) == IF HelperRegister(h) = "mstatus" THEN mstatus ELSE mie

\* read_mstatus / read_mie, first statement of every helper.
csr_helper_read ==
    /\ FgAt("idle")
    /\ \E h \in CsrHelpers :
         /\ fg' = [IdleFg EXCEPT !.pc = "csr_write", !.op = h,
                                 !.value = RegisterValue(h)]
         /\ ev' = [op |-> "csr_read", helper |-> h, read |-> RegisterValue(h)]
    /\ UNCHANGED << hwFault, coldState, msip, mtime, mtimecmp, mstatus, mie, mcause,
                    mepc, swStats, TIMER_STATS >>

\* The modification and write_mstatus / write_mie.
csr_helper_write ==
    /\ FgAt("csr_write")
    /\ LET h == fg.op
           value == HelperValue(h, fg.value)
       IN  /\ \E stored \in CsrStored(RegisterValue(h), value, HelperBit(h)) :
                IF HelperRegister(h) = "mstatus"
                THEN mstatus' = stored /\ UNCHANGED mie
                ELSE mie' = stored /\ UNCHANGED mstatus
           /\ fg' = [fg EXCEPT !.pc = "csr_verify", !.when = value]
           /\ ev' = [op |-> "csr_write", helper |-> h, read |-> fg.value,
                     written |-> value, mstatus0 |-> mstatus, mie0 |-> mie]
    /\ UNCHANGED << hwFault, coldState, msip, mtime, mtimecmp, mcause, mepc,
                    swStats, TIMER_STATS >>

\* The readback and the result.
csr_helper_verify ==
    /\ FgAt("csr_verify")
    /\ LET h == fg.op
           readback == RegisterValue(h)
       IN  ev' = [op |-> "csr_helper", helper |-> h, read |-> fg.value,
                  written |-> fg.when, readback |-> readback,
                  result |-> HelperResult(h, readback)]
    /\ fg' = IdleFg
    /\ UNCHANGED << hwFault, coldState, msip, mtime, mtimecmp, mstatus, mie, mcause,
                    mepc, swStats, TIMER_STATS >>

\* Register contents a helper can find: any of the enable bits, and the
\* previous-enable bit a trap leaves in mstatus.
CsrStatusValues ==
    {0, Pow2(MSTATUS_MIE_BIT), Pow2(MSTATUS_MPIE_BIT),
     Pow2(MSTATUS_MIE_BIT) + Pow2(MSTATUS_MPIE_BIT)}

CsrEnableValues ==
    { s * Pow2(MIE_MSIE_BIT) + t * Pow2(MIE_MTIE_BIT) + e * Pow2(MIE_MEIE_BIT) :
        s \in {0, 1}, t \in {0, 1}, e \in {0, 1} }

InitCsr ==
    /\ hwFault \in BOOLEAN
    /\ msip \in {0, 1}
    /\ mtime = 0
    /\ mtimecmp \in {0, MaxTime}
    /\ mstatus \in CsrStatusValues
    /\ mie \in CsrEnableValues
    /\ mcause = 0
    /\ mepc = 0
    /\ SW_INTERRUPT_COUNT = 0
    /\ YIELD_COUNT = 0
    /\ LAST_YIELD_TIME = 0
    /\ MSIP_ERRORS = 0
    /\ HANDLER_CALLS = 0
    /\ TIMER_STATS = [interrupts |-> 0, alarms_set |-> 0, errors |-> 0, total_ticks |-> 0]
    /\ TICKS = 0
    /\ PANIC_COUNT = 0
    /\ LAST_PANIC_PC = 0
    /\ stack = "live"
    /\ mem = ZeroMem
    /\ guard = NoGuard
    /\ fg = IdleFg
    /\ ev = NoEv

\* The helpers under the interrupts they enable.
NextCsr ==
    \/ SoftwareIrq
    \/ TimerIrq
    \/ Tick
    \/ csr_helper_read
    \/ csr_helper_write
    \/ csr_helper_verify

SpecCsr == InitCsr /\ [][NextCsr]_vars


\* ===================================================================== C1
\* The decode table as the specification words it: interrupt codes 3, 7 and
\* 11 and exception code 11 have variants of their own, and every other
\* cause is Unknown carrying its low XLEN-1 bits.
SpecDecodeTable(v) ==
    CASE v = MCAUSE_INTERRUPT_BIT + 3 -> [tag |-> "SoftwareInterrupt"]
      [] v = MCAUSE_INTERRUPT_BIT + 7 -> [tag |-> "TimerInterrupt"]
      [] v = MCAUSE_INTERRUPT_BIT + 11 -> [tag |-> "ExternalInterrupt"]
      [] v = 11 -> [tag |-> "Ecall"]
      [] OTHER -> [tag |-> "Other", val |-> v % MCAUSE_INTERRUPT_BIT]

\* The table the decoder implements: there is no external-interrupt variant,
\* and Other carries the raw cause with its interrupt bit.
RawDecodeTable(v) ==
    CASE v = MCAUSE_INTERRUPT_BIT + 3 -> [tag |-> "SoftwareInterrupt"]
      [] v = MCAUSE_INTERRUPT_BIT + 7 -> [tag |-> "TimerInterrupt"]
      [] v = 11 -> [tag |-> "Ecall"]
      [] OTHER -> [tag |-> "Other", val |-> v]

C2_SoftwareTrapClearsPending ==
    (ev.op = "trap" /\ ev.mcause = MCAUSE_INTERRUPT_BIT + INTERRUPT_SW_MACHINE
        /\ ev.msip0 = 1)
    => (msip = 0 /\ ~SwIrqDeliverable)

C2_Witness ==
    /\ ev.op = "trap"
    /\ ev.mcause = MCAUSE_INTERRUPT_BIT + INTERRUPT_SW_MACHINE
    /\ ev.msip0 = 1
    /\ ev.mie0 = 1
    /\ Bit(mie, MIE_MSIE_BIT) = 1
    /\ msip = 0

\* ===================================================================== C3
\* C3 (as stated): a software-interrupt trap leaves HANDLER_CALLS one above
\* its value at handler entry.
C3_HandlerCallsIncrement ==
    (ev.op = "trap" /\ ev.mcause = MCAUSE_INTERRUPT_BIT + INTERRUPT_SW_MACHINE)
    => HANDLER_CALLS = ev.calls0 + 1

\* ===================================================================== C4
\* C4: a handler run whose cause decodes to Ecall, entered with exception
\* PC P, returns with exception PC P + 4, and the foreground resumes past
\* the ecall.
C4_EcallAdvancesPc ==
    (ev.op = "trap" /\ ev.trap_cause.tag = "Ecall")
    => (mepc = ev.mepc0 + 4 /\ fg.pc # "refault")

C4_Witness ==
    /\ ev.op = "trap"
    /\ ev.mcause = EXCEPTION_ECALL_MMODE
    /\ ev.mepc0 = 2
    /\ mepc = 6

\* ===================================================================== C5
IsError(result) == result \in {"ReadError", "VerifyFailed"}

Last(seq) == seq[Len(seq)]

C6_VerifiedWriteRoundTrip ==
    ~hwFault =>
        /\ (ev.op = "write_msip_safe" /\ ev.result # "InvalidValue")
              => (ev.result = "Ok" /\ msip = ev.value)
        /\ ev.op = "test_basic_msip_operations_simple"
              => (ev.result = "Ok" /\ msip = 0)

\* ===================================================================== C7
\* C7: a request to write a value above 1, through write_msip_safe or
\* safe_msip_write, returns the invalid-value error with MSIP and MSIP_ERRORS
\* as they were; no value above 1 is ever stored or under verification.
C7_InvalidValueRejected ==
    /\ (ev.op \in {"write_msip_safe", "safe_msip_write"} /\ ev.value > 1)
          => /\ ev.result = "InvalidValue"
             /\ msip = ev.msip0
             /\ MSIP_ERRORS = ev.errors0
    /\ msip <= 1
    /\ fg.pc \in {"wms_verify", "smw_verify"} => fg.value <= 1

C7_Witness ==
    /\ ev.op = "write_msip_safe"
    /\ ev.value = 2
    /\ ev.result = "InvalidValue"
    /\ msip = 1
    /\ ev.msip0 = 1

\* ===================================================================== C8
YieldOps == {"yield_cpu", "yield_cpu_relaxed"}

\* C8: when yield_cpu or yield_cpu_relaxed returns, on any path, mstatus
\* bit 3 has its value from the start of the call; the call sets the bit for
\* its wait exactly when the bit was clear at the start.
C8_YieldRestoresGlobalEnable ==
    /\ ev.op \in YieldOps => Bit(mstatus, MSTATUS_MIE_BIT) = ev.mie0
    /\ (fg.op \in YieldOps /\ fg.pc \in {"y_wait", "r_count", "r_wait", "y_restore",
                                          "r_restore"})
          => /\ fg.was_enabled <=> (fg.mie0 = 1)
             /\ interrupts_enabled(mstatus)
    /\ (fg.op \in YieldOps /\ fg.pc \in {"wms_verify", "y_after_trigger",
                                          "r_after_trigger", "y_done"})
          => Bit(mstatus, MSTATUS_MIE_BIT) = fg.mie0

C8_Witness ==
    /\ ev.op = "yield_cpu"
    /\ ev.result = "Ok"
    /\ ev.outcome = "cleared"
    /\ ev.mie0 = 0
    /\ Bit(mstatus, MSTATUS_MIE_BIT) = 0
    /\ mcause = MCAUSE_INTERRUPT_BIT + INTERRUPT_SW_MACHINE

\* ===================================================================== C9
\* C9: yield_cpu_relaxed returns Ok exactly when its trigger succeeded, the
\* timeout of the wait included, and Err only when the trigger failed.
C9_RelaxedTimeoutIsSuccess ==
    ev.op = "yield_cpu_relaxed"
    => /\ (ev.result = "Ok") <=> (ev.trigger = "Ok")
       /\ (ev.result = "Err") <=> (ev.outcome = "set_failed")
       /\ ev.result \in {"Ok", "Err"}

C9_Witness ==
    /\ ev.op = "yield_cpu_relaxed"
    /\ ev.outcome = "timeout"
    /\ ev.result = "Ok"
    /\ msip = 1

\* ==================================================================== C10
\* C10: set_alarm(d) returns Ok exactly when its readback of the compare
\* register equals d, and HardwareFault otherwise; after Ok the register,
\* read faithfully, holds d.
C10_SetAlarmVerified ==
    ev.op = "set_alarm"
    => /\ (ev.result = "Ok") <=> (ev.readback = ev.when)
       /\ (ev.result = "HardwareFault") <=> (ev.readback # ev.when)
       /\ (ev.result = "Ok" /\ ~hwFault) => mtimecmp = ev.when

C10_Witness ==
    /\ ev.op = "set_alarm"
    /\ ev.when = 1
    /\ ev.result = "Ok"
    /\ mtimecmp = 1
    /\ ~hwFault

\* ==================================================================== C11
\* C11: every timer-interrupt trap leaves the compare register at the
\* counter value plus the fixed period of 10 * TIMER_FREQ ticks, whatever the
\* verification readback says; at return the compare value is above the
\* counter and the timer interrupt is not deliverable.
C11_TimerTrapRearms ==
    (ev.op = "trap" /\ ev.trap_cause.tag = "TimerInterrupt")
    => /\ mtimecmp = mtime + 10 * TIMER_FREQ
       /\ mtimecmp > mtime
       /\ ~TimerIrqDeliverable

C11_Witness ==
    /\ ev.op = "trap"
    /\ ev.mcause = MCAUSE_INTERRUPT_BIT + INTERRUPT_TIMER_MACHINE
    /\ ev.mie0 = 1
    /\ Bit(mie, MIE_MTIE_BIT) = 1
    /\ mtime = 1
    /\ mtimecmp = 100000001
    /\ TIMER_STATS.interrupts = 1

\* ==================================================================== C12
\* C12 (as stated): a timer-interrupt trap leaves the tick counter that
\* get_ticks reports one above its value at handler entry.
C12_TimerTrapCountsTick ==
    (ev.op = "trap" /\ ev.trap_cause.tag = "TimerInterrupt")
    => get_ticks = ev.ticks0 + 1

\* ==================================================================== C13
\* The tick count of ms milliseconds fits the timer register.
FitsTimer(ms) == ms * (TIMER_FREQ \div 1000) < Pow2(TIMER_BITS)

\* C13: at 10,000 ticks per millisecond every whole millisecond value whose
\* tick count fits the register converts to ticks and back to itself.
C13_ConversionRoundTrip ==
    (ev.op = "conversion_test" /\ FitsTimer(ev.test_ms))
    => /\ ev.ticks = ev.test_ms * 10000
       /\ ev.back_to_ms = ev.test_ms

C13_Witness ==
    /\ ev.op = "conversion_test"
    /\ ev.test_ms = 1000
    /\ ev.ticks = 10000000
    /\ ev.back_to_ms = 1000

\* ==================================================================== C14
\* The decision table of the specification.
DecisionTable(kind, severity) ==
    IF kind = "memory_corruption"
    THEN (IF severity >= 8 THEN "SoftReset"
          ELSE IF severity \in 5 .. 7 THEN "SafeMode" ELSE "ContinueUnsafe")
    ELSE IF kind = "stack_overflow" THEN "SoftReset"
    ELSE IF kind = "trap_error" THEN "SafeMode"
    ELSE IF kind = "assertion_failure"
    THEN (IF severity >= 7 THEN "Halt" ELSE "SafeMode")
    ELSE "Halt"

\* C14: for every error type and every severity 0..10 the action chosen by
\* decide_recovery_action is the one of the decision table.
C14_DecisionTableReproduced ==
    ev.op = "execute_recovery_action"
    => ev.action = DecisionTable(ev.error_type, ev.severity)

C14_Witness ==
    /\ ev.op = "execute_recovery_action"
    /\ ev.error_type = "memory_corruption"
    /\ ev.severity = 7
    /\ ev.action = "SafeMode"

\* ==================================================================== C15
\* Positions of the panic path after the first statement of the handler, and
\* positions of the recovery functions after their first statement.
PanicPathPcs == {"p_stats", "p_capture", "p_stack", "h_disable", "h_stop", "halted"}
RecoveryPathPcs == {"h_stop", "halted", "esm_stop", "shell", "idle_wait", "sr_stop",
                    "sr_clear", "sr_reinit", "sr_jump", "reset_entry", "ret_zero"}

\* C15: from the first statement of the panic handler on, and of each
\* recovery function on, mstatus bit 3 is clear: the statistics update and
\* the snapshot run with it clear, and no interrupt trap is taken on the
\* path.
C15_PanicDisablesInterruptsFirst ==
    /\ (fg.op = "panic" /\ fg.pc \in PanicPathPcs)
          => (~interrupts_enabled(mstatus) /\ ev.op # "trap")
    /\ ev.op \in {"panic_stats", "panic_capture"} => ev.mie_bit = 0
    /\ (fg.op = "execute_recovery_action"
           /\ (fg.pc \in RecoveryPathPcs
                  \/ (fg.pc = "sr_disable" /\ fg.action # "SoftReset")))
          => (~interrupts_enabled(mstatus) /\ ev.op # "trap")

C15_Witness ==
    /\ fg.op = "panic"
    /\ fg.mie0 = 1
    /\ Bit(mie, MIE_MSIE_BIT) = 1
    /\ ~interrupts_enabled(mstatus)
    /\ ev.op = "panic_capture"
    /\ PANIC_COUNT = 1

\* ==================================================================== C16
\* C16 (as stated): whenever the system halts for a fatal condition of some
\* kind, Halt is what the decision table selects for that kind at some
\* severity.
C16_TerminalActionFromTable ==
    (fg.op = "panic" /\ fg.pc = "halted")
    => \E severity \in 0 .. MaxSeverity :
          decide_recovery_action(fg.kind, severity) = "Halt"

\* ==================================================================== C17
\* C17: in the wait loop of halt_system the compare register holds the
\* maximum value, MSIP is 0, mstatus bit 3 and the whole of mie are clear and
\* no interrupt is deliverable; the system stays in the loop and takes no
\* trap.
C17_HaltIsAbsorbing ==
    /\ [](fg.pc = "halted"
            => /\ mtimecmp = U64_MAX
               /\ msip = 0
               /\ ~interrupts_enabled(mstatus)
               /\ mie = 0
               /\ ~IrqDeliverable
               /\ ev.op # "trap")
    /\ [][fg.pc = "halted" => (fg'.pc = "halted" /\ ev'.op # "trap")]_vars

C17_Witness ==
    /\ fg.pc = "halted"
    /\ fg.op = "execute_recovery_action"
    /\ fg.mie0 = 1
    /\ ev.op = "wfi"
    /\ mtime = 1
    /\ mtimecmp = U64_MAX

\* ==================================================================== C18
\* C18 (as stated): once soft_reset has zero-filled the stack it is at its
\* register reset, at its jump or past the privileged return, and past the
\* return mepc is the entry point, the compare register the maximum value,
\* MSIP 0, mie 0 and mstatus bit 3 clear.
C18_SoftResetReturnsToEntry ==
    /\ stack = "zeroed" => fg.pc \in {"sr_reinit", "sr_jump", "reset_entry"}
    /\ fg.pc = "reset_entry"
          => /\ mepc = reset_addr
             /\ mtimecmp = U64_MAX
             /\ msip = 0
             /\ mie = 0
             /\ ~interrupts_enabled(mstatus)

\* ==================================================================== C19
\* C19 (as stated): a SafeMode execution that has stopped the timer and the
\* software interrupt is in its command loop, with at most 10 commands run,
\* or in the idle wait after it.
C19_SafeModeFallsThrough ==
    (fg.action = "SafeMode" /\ fg.pc # "esm_disable" /\ fg.pc # "esm_stop")
    => /\ fg.pc \in {"shell", "idle_wait"}
       /\ fg.command_count <= max_commands
       /\ mtimecmp = U64_MAX
       /\ msip = 0

\* ==================================================================== C20
\* Positions inside enter_safe_mode and the functions it calls.
SafeModePcs == {"esm_disable", "esm_stop", "shell", "idle_wait", "sr_disable",
                "sr_stop", "sr_clear", "sr_reinit", "sr_jump", "reset_entry",
                "ret_zero"}

\* C20: execute_recovery_action enters the same function for ContinueUnsafe
\* as for SafeMode, and a ContinueUnsafe execution stays inside that function
\* and what it calls: it never returns to the foreground.
C20_ContinueUnsafeIsSafeMode ==
    /\ (ev.op = "execute_recovery_action" /\ ev.action = "ContinueUnsafe")
          => (ev.entry = RecoveryEntry("SafeMode") /\ fg.pc = ev.entry)
    /\ fg.action = "ContinueUnsafe" => fg.pc \in SafeModePcs

C20_Witness ==
    /\ fg.action = "ContinueUnsafe"
    /\ fg.pc = "shell"
    /\ fg.command_count = 2
    /\ mtimecmp = U64_MAX
    /\ msip = 0

\* ==================================================================== C21
\* C21: for every cause value the handler returns to the context it
\* interrupted: after the trap the foreground is where it was, no panic is
\* counted or recorded, the stack is intact, and mstatus and mie are what
\* they were, so none of the halt, reset or safe-mode sequences has run.
C21_HandlerAlwaysReturns ==
    ev.op = "trap"
    => /\ fg = IdleFg
       /\ PANIC_COUNT = 0
       /\ LAST_PANIC_PC = 0
       /\ stack = "live"
       /\ mstatus = 0
       /\ mie = 0
       /\ mtimecmp # U64_MAX

C21_Witness ==
    /\ ev.op = "trap"
    /\ ev.trap_cause.tag = "Other"
    /\ ev.mcause = MCAUSE_INTERRUPT_BIT + INTERRUPT_EXT_MACHINE
    /\ fg = IdleFg
    /\ PANIC_COUNT = 0

\* ==================================================================== C22
\* Positions inside a busy-wait: the verification loop of write_msip_safe,
\* the wait loops of both yield variants and the loop of delay_ms.
BusyWaitPcs == {"wms_verify", "y_wait", "r_wait", "d_wait", "d_nop"}

\* C22 (as stated): every busy-wait ends, whatever the hardware does: a
\* foreground inside one of the wait loops eventually leaves it.
C22_EveryWaitTerminates == (fg.pc \in BusyWaitPcs) ~> (fg.pc \notin BusyWaitPcs)

\* The waits that count iterations do end on every hardware.
C22_CountedWaitsTerminate ==
    (fg.pc \in BusyWaitPcs \ {"d_wait", "d_nop"}) ~> (fg.pc \notin BusyWaitPcs)

C24_ServicedYieldIsProcessed ==
    /\ (ev.op = "trap" /\ ev.trap_cause.tag = "SoftwareInterrupt"
           /\ fg.op = "yield_cpu_relaxed" /\ fg.pc \in {"r_count", "r_wait"})
          => SW_INTERRUPT_COUNT > LAST_YIELD_TIME
    /\ (fg.op = "yield_cpu_relaxed" /\ fg.pc = "r_restore"
           /\ ~hwFault /\ fg.mie0 = 0 /\ msip = 0)
          => fg.wait_count < max_wait_relaxed
    /\ (ev.op = "yield_cpu_relaxed" /\ ev.trigger = "Ok"
           /\ ~hwFault /\ ev.mie0 = 0 /\ msip = 0)
          => ev.outcome = "processed"

\* ==================================================================== C25
\* C25 (as stated): the strict yield_cpu fails on timeout and only the
\* relaxed variant succeeds on it.  With the software interrupt masked on
\* fault-free hardware the handler never runs: a yield_cpu whose trigger
\* verified waits out its bound with MSIP still set and returns Err, and so
\* does every yield_cpu on fault-free hardware that finds MSIP still set
\* after its wait, while yield_cpu_relaxed returns Ok on timeout.
C25_StrictYieldFailsOnTimeout ==
    /\ (ev.op = "yield_cpu" /\ ~hwFault /\ Bit(mie, MIE_MSIE_BIT) = 0
           /\ ev.outcome # "set_failed")
          => ev.result = "Err"
    /\ (ev.op = "yield_cpu" /\ ~hwFault /\ ev.outcome = "forced_clear")
          => ev.result = "Err"
    /\ (ev.op = "yield_cpu_relaxed" /\ ev.outcome = "timeout") => ev.result = "Ok"

\* ==================================================================== C26
\* C26 (as stated): on fault-free hardware trigger_software_interrupt
\* returns Ok under every interleaving with the trap handler, and so no
\* yield of either variant ends with its trigger failed.
C26_TriggerSucceedsUnderInterleaving ==
    /\ (ev.op = "write_msip_safe" /\ ev.value = 1 /\ ~hwFault) => ev.result = "Ok"
    /\ (ev.op \in YieldOps /\ ~hwFault) => ev.outcome # "set_failed"

\* ==================================================================== C28
\* C28: for every cause that does not decode to Ecall (software interrupt,
\* timer interrupt, and every cause of the Other arm) mepc after the handler
\* is mepc at its entry; only the Ecall arm writes mepc.
C28_OnlyEcallMovesPc ==
    ev.op = "trap"
    => /\ ev.trap_cause.tag # "Ecall" => mepc = ev.mepc0
       /\ mepc # ev.mepc0 => ev.trap_cause.tag = "Ecall"

C28_Witness ==
    /\ ev.op = "trap"
    /\ ev.trap_cause.tag = "Other"
    /\ ev.mcause = EXCEPTION_ILLEGAL_INSTR
    /\ ev.mepc0 = 2
    /\ mepc = 2

\* ==================================================================== C29
\* C29 (as stated): no trap is left to be taken again at the point it
\* returned to: after a software or timer interrupt trap that interrupt is
\* no longer deliverable, and after a synchronous exception the foreground
\* resumes past the instruction that raised it.
C29_NoTrapRetakenForever ==
    ev.op = "trap"
    => /\ ev.trap_cause.tag = "SoftwareInterrupt" => ~SwIrqDeliverable
       /\ ev.trap_cause.tag = "TimerInterrupt" => ~TimerIrqDeliverable
       /\ ev.mcause < MCAUSE_INTERRUPT_BIT
             => (fg.pc # "refault" /\ mepc # ev.mepc0)

\* ==================================================================== C30
\* C30: with mstatus bit 3 and mie bit 7 set and the counter advancing, every
\* timer interrupt trap leaves the compare register one period of
\* 10 * TIMER_FREQ ticks above the counter, and every count of handled timer
\* interrupts below the cap of the model is followed by the next one: the
\* armed deadline is reached and dispatched again.
C30_TimerCadenceRecurs ==
    /\ []((ev.op = "trap" /\ ev.trap_cause.tag = "TimerInterrupt")
            => (mtimecmp = mtime + 10 * TIMER_FREQ /\ mtimecmp < Pow2(TIMER_BITS) - 1))
    /\ [](interrupts_enabled(mstatus) /\ Bit(mie, MIE_MTIE_BIT) = 1)
    /\ \A n \in 0 .. (MaxTimerIrqs - 1) :
          (TIMER_STATS.interrupts = n) ~> (TIMER_STATS.interrupts = n + 1)

C30_Witness ==
    /\ ev.op = "trap"
    /\ ev.trap_cause.tag = "TimerInterrupt"
    /\ TIMER_STATS.interrupts = 2
    /\ mtime > 10 * TIMER_FREQ
    /\ mtimecmp = mtime + 10 * TIMER_FREQ

\* ==================================================================== C31
\* C31 (as stated): the statistics counters lose no update.  Every
\* foreground set_alarm or stop that counts its outcome leaves the counter it
\* counts in exactly one above the value the counter had when the count was
\* stored, and the other counters as they were, so that alarms_set and errors
\* stay equal to the number of outcomes counted in them, whatever timer
\* interrupts were handled during the call.
C31_NoLostUpdate ==
    ev.op = "record"
    => /\ ev.result = "Ok"
            => /\ TIMER_STATS.alarms_set = ev.stats0.alarms_set + 1
               /\ TIMER_STATS.errors = ev.stats0.errors
       /\ ev.result = "HardwareFault"
            => /\ TIMER_STATS.errors = ev.stats0.errors + 1
               /\ TIMER_STATS.alarms_set = ev.stats0.alarms_set

\* ==================================================================== C32
\* C32 (as stated): on fault-free hardware every foreground set_alarm(d)
\* returns Ok, whatever timer interrupts are handled between its write of the
\* compare register and its readback.
C32_SetAlarmOkOnSoundHardware ==
    (ev.op = "set_alarm" /\ ~hwFault) => ev.result = "Ok"

\* ==================================================================== C33
\* C33 (as stated): the pending register changes only through a verified
\* write.  Every step that changes MSIP enters the readback verification of
\* the value it wrote (of write_msip_safe or safe_msip_write), whichever
\* component took the step.
C33_PendingWrittenOnlyVerified ==
    [][msip' # msip
        => /\ fg'.pc \in {"wms_verify", "smw_verify"}
           /\ fg'.value = msip'
           /\ fg'.attempt = 0]_vars

\* ==================================================================== C34
\* C34 (as stated): when yield_cpu or yield_cpu_relaxed returns Ok on
\* fault-free hardware, MSIP is 0 and the global interrupt enable is what it
\* was when the yield was called.
C34_OkYieldLeavesNothingPending ==
    (ev.op \in YieldOps /\ ev.result = "Ok" /\ ~hwFault)
    => /\ msip = 0
       /\ Bit(mstatus, MSTATUS_MIE_BIT) = ev.mie0

\* ==================================================================== C35
\* C35 (as stated): the zero-fill of SoftReset stays inside the stack region.
\* For every stack pointer value it writes nothing when the stack pointer is
\* not below the stack base, and otherwise only bytes from the stack pointer
\* up to the stack base that lie in the stack region, which the linker places
\* in RAM below the stack base.
C35_ZeroFillInsideStackRegion ==
    ev.op = "clear_temporary_memory"
    => /\ ev.current_sp >= stack_top => ev.clear_size = 0
       /\ ev.clear_size > 0
            => /\ ev.first >= ev.current_sp
               /\ ev.first + ev.clear_size <= stack_top
               /\ ev.first >= ram_start

\* ==================================================================== C36
\* C36 (as stated): for every stack pointer that passes the RAM range check
\* of print_stack_info, the stack-usage subtraction does not go below zero
\* and the panic handler goes on to halt_system, never back to its own entry.
C36_StackUsageNeverUnderflows ==
    (ev.op = "print_stack_info" /\ ev.valid)
    => /\ ev.stack_used >= 0
       /\ fg.pc = "h_disable"

\* ==================================================================== C37
\* The words of RAM lying wholly inside the range of a guard.
RegionWords(g) == {a \in MemAddrs : a >= g.start /\ a + 4 <= g.end}

\* C37: check() answers true whenever every word of the guarded range holds
\* the value it had when the checksum was last taken, whatever was written
\* outside the range; handle_corruption ends in the panic handler with the
\* foreground never back in the caller.
C37_MismatchOnlyIfModified ==
    /\ []((ev.op = "check"
             /\ \A a \in RegionWords(guard) : mem[a] = guard.baseline[a])
            => ev.result)
    /\ [](ev.op = "handle_corruption"
            => (fg.op = "panic" /\ fg.pc = "p_entry" /\ fg.kind = "memory_corruption"))
    /\ [][fg.op = "panic" => (fg'.op = "panic" /\ fg'.pc # "idle")]_vars

C37_Witness ==
    /\ ev.op = "check"
    /\ ev.result
    /\ guard.start = 0
    /\ guard.end = 4
    /\ mem[0] = guard.baseline[0]
    /\ mem[4] # guard.baseline[4]

\* ==================================================================== C38
\* The words the checksum of a guard covers: those at a 4-aligned address
\* inside RAM, a multiple of 4 bytes from the start of the range, that lie
\* wholly inside it.
CoveredWords(g) ==
    {a \in MemAddrs : /\ a >= g.start
                      /\ a + 4 <= g.end
                      /\ (a - g.start) % 4 = 0
                      /\ a % 4 = 0
                      /\ a >= ram_start
                      /\ a < ram_end}

\* C38 (as stated): check() answers false whenever a word of the guarded
\* range differs from its value at the baseline.
C38_EveryModificationDetected ==
    (ev.op = "check" /\ \E a \in RegionWords(guard) : mem[a] # guard.baseline[a])
    => ~ev.result

\* C38 (amended): check() answers false whenever exactly one of the words
\* the checksum covers differs from its value at the baseline.
C38_SingleWordChangeDetected ==
    (ev.op = "check"
        /\ Cardinality({a \in CoveredWords(guard) : mem[a] # guard.baseline[a]}) = 1)
    => ~ev.result

C38_Witness ==
    /\ ev.op = "check"
    /\ ~ev.result
    /\ guard.start = 0
    /\ guard.end = 8
    /\ mem[0] = guard.baseline[0]
    /\ mem[4] # guard.baseline[4]

OtherBits(x, n) == ClearBit(x, n)

C40_HelperChangesOneBit ==
    /\ ev.op = "csr_write" =>
         LET h == ev.helper
             bit == HelperBit(h)
         IN  /\ Bit(ev.written, bit) = HelperRequested(h)
             /\ OtherBits(ev.written, bit) = OtherBits(ev.read, bit)
             /\ IF HelperRegister(h) = "mstatus"
                THEN /\ bit = 3
                     /\ OtherBits(mstatus, bit) = OtherBits(ev.mstatus0, bit)
                     /\ mie = ev.mie0
                ELSE /\ bit = (CASE h = "enable_machine_software_interrupt" -> 3
                                 [] h = "enable_machine_timer_interrupt" -> 7
                                 [] OTHER -> 11)
                     /\ OtherBits(mie, bit) = OtherBits(ev.mie0, bit)
                     /\ mstatus = ev.mstatus0
    /\ ev.op = "csr_helper" =>
         /\ OtherBits(ev.readback, HelperBit(ev.helper))
                = OtherBits(ev.read, HelperBit(ev.helper))
         /\ (ev.result = "HardwareFault")
                <=> (Bit(ev.readback, HelperBit(ev.helper)) # HelperRequested(ev.helper))
         /\ ev.result \in {"Ok", "HardwareFault"}

\* The external-interrupt helper finds the software and timer enables set,
\* the hardware keeps MEIE clear, and the helper reports the fault with the
\* other two enables untouched.
C40_Witness ==
    /\ ev.op = "csr_helper"
    /\ ev.helper = "enable_machine_external_interrupt"
    /\ ev.read = Pow2(MIE_MSIE_BIT) + Pow2(MIE_MTIE_BIT)
    /\ ev.readback = ev.read
    /\ ev.result = "HardwareFault"
====
